---- MODULE Spec2Model ----
(***************************************************************************)
(* Job analysis engine of the JobmateAI backend.                           *)
(*                                                                         *)
(*   - JobAnalyzerService (app/services/ai/job_analyzer_service.py): the   *)
(*     pipeline  LLM extraction -> validate -> enhance -> embedding text,  *)
(*     with its two degraded paths (default response, fallback analysis).  *)
(*   - POST /jobs/{job_id}/analyze (app/api/v1/endpoints/jobs.py): the     *)
(*     request handler, modelled statement by statement at the granularity *)
(*     of its database accesses so that requests served by different       *)
(*     workers interleave.                                                 *)
(*                                                                         *)
(* JSON values are tagged records [k |-> kind, v |-> payload]; Python's    *)
(* exceptions are the "exc" field of an operator's result.                 *)
(***************************************************************************)
EXTENDS Integers, Sequences, FiniteSets, TLC

\* ------------------------------------------------------------------ bounds
MaxDescLen == 2        \* tokens in a job description
NumRequests == 2       \* analyze requests in flight
NumJobs == 1           \* job posts in the database

\* ----------------------------------------------------------------- strings
\* str.lower() on the strings that occur in the model (identity elsewhere).
LowerMap ==
  ("Python" :> "python") @@ (" Python " :> " python ") @@ ("AWS" :> "aws") @@
  ("Docker" :> "docker") @@ ("Teamwork" :> "teamwork") @@ ("G" :> "g") @@
  ("Java" :> "java") @@ ("JavaScript" :> "javascript") @@
  ("TypeScript" :> "typescript") @@ ("React" :> "react") @@
  ("Node.js" :> "node.js") @@ ("Kubernetes" :> "kubernetes") @@
  ("Azure" :> "azure") @@ ("PostgreSQL" :> "postgresql") @@
  ("MongoDB" :> "mongodb") @@ ("Git" :> "git") @@ ("CI/CD" :> "ci/cd") @@
  ("REST" :> "rest") @@ ("API" :> "api") @@ ("Go" :> "go") @@
  ("10+ Years" :> "10+ years") @@ ("REST API" :> "rest api") @@
  ("Contract" :> "contract")

Lower(s) == IF s \in DOMAIN LowerMap THEN LowerMap[s] ELSE s

\* str.strip() on the strings that occur in the model (identity elsewhere).
StripMap == (" Python " :> "Python") @@ (" python " :> "python")

Strip(s) == IF s \in DOMAIN StripMap THEN StripMap[s] ELSE s

\* iterating a str yields its characters
CharsMap == ("Go" :> <<"G", "o">>)

Chars(s) == IF s \in DOMAIN CharsMap THEN CharsMap[s] ELSE <<s>>

\* -------------------------------------------------------------------- JSON
Absent == [k |-> "absent"]          \* key not in the dict
Null == [k |-> "null"]
Str(s) == [k |-> "str", v |-> s]
Num(n) == [k |-> "num", v |-> n]
List(q) == [k |-> "list", v |-> q]
Obj(r) == [k |-> "obj", v |-> r]
Garbage == [k |-> "garbage"]        \* text that json.loads rejects

RECURSIVE StrList(_)
StrList(q) == IF q = <<>> THEN <<>> ELSE <<Str(Head(q))>> \o StrList(Tail(q))

\* a JSON array of strings
L(q) == List(StrList(q))

\* Python truthiness of dict.get(key): missing key and None, "", 0, [] are falsy
Falsy(x) ==
  \/ x.k \in {"absent", "null"}
  \/ x.k = "str" /\ x.v = ""
  \/ x.k = "num" /\ x.v = 0
  \/ x.k = "list" /\ x.v = <<>>

IsStrList(x) == x.k = "list" /\ \A i \in 1..Len(x.v) : x.v[i].k = "str"

Take(q, n) == IF Len(q) <= n THEN q ELSE SubSeq(q, 1, n)

array_fields ==
  <<"required_skills", "preferred_skills", "education_requirements",
    "certifications", "responsibilities", "benefits",
    "key_technologies", "soft_skills">>

ArrayFieldSet == {array_fields[i] : i \in 1..Len(array_fields)}

ScalarFieldSet ==
  {"experience_level", "min_years_experience", "max_years_experience",
   "salary_range", "employment_type", "remote_policy", "industry",
   "company_size"}

AllFields == ArrayFieldSet \cup ScalarFieldSet

valid_levels == {"entry", "junior", "mid", "senior", "lead", "principal"}

valid_types == {"full-time", "part-time", "contract", "internship"}

\* the empty dict {}
EmptyObj == Obj([f \in AllFields |-> Absent])

Ok(x) == [exc |-> "none", val |-> x]
Raise(e) == [exc |-> e, val |-> Null]

\* ------------------------------------------------------------ description
\* A description is a sequence of phrases.  For each phrase: the keywords of
\* the service's heuristics that are substrings of the lower-cased phrase,
\* and the integer the regex (\d+)\+?\s*years? captures in it (-1: no match).
DescTokens ==
  {"10+ Years", "2 years", "0 years", "Python", "JavaScript", "REST API",
   "remote-first", "hybrid", "on-site office", "Contract"}

KeywordsIn(tok) ==
  CASE tok = "python" -> {"python"}
    [] tok = "javascript" -> {"java", "javascript"}
    [] tok = "rest api" -> {"rest", "api"}
    [] tok = "remote-first" -> {"remote-first"}
    [] tok = "hybrid" -> {"hybrid"}
    [] tok = "on-site office" -> {"on-site", "office"}
    [] tok = "contract" -> {"contract"}
    [] OTHER -> {}

YearsIn(tok) ==
  CASE tok = "10+ years" -> 10
    [] tok = "2 years" -> 2
    [] tok = "0 years" -> 0
    [] OTHER -> -1

\* job_post.description.lower()
LowerDesc(desc) == [i \in 1..Len(desc) |-> Lower(desc[i])]

\* keyword in description   (description already lower-cased)
Contains(description, kw) ==
  \E i \in 1..Len(description) : kw \in KeywordsIn(description[i])

\* re.search(r'(\d+)\+?\s*years?', description): leftmost match
years_match(description) ==
  LET hits == {i \in 1..Len(description) : YearsIn(description[i]) >= 0}
  IN IF hits = {} THEN [found |-> FALSE, years |-> 0]
     ELSE LET first == CHOOSE i \in hits : \A j \in hits : i <= j
          IN [found |-> TRUE, years |-> YearsIn(description[first])]

RECURSIVE SelectSeq2(_, _)
\* [x for x in q if x.lower() in description]
SelectSeq2(q, description) ==
  IF q = <<>> THEN <<>>
  ELSE (IF Contains(description, Lower(Head(q))) THEN <<Head(q)>> ELSE <<>>)
       \o SelectSeq2(Tail(q), description)

common_tech_enhance ==
  <<"Python", "Java", "JavaScript", "TypeScript", "React", "Node.js",
    "Docker", "Kubernetes", "AWS", "Azure", "PostgreSQL", "MongoDB">>

common_tech_fallback ==
  <<"Python", "Java", "JavaScript", "TypeScript", "React", "Node.js",
    "Docker", "Kubernetes", "AWS", "Azure", "PostgreSQL", "MongoDB",
    "Git", "CI/CD", "REST", "API">>

\* ------------------------------------------------------ JobAnalyzerService
\* _default_response
default_response ==
  Obj([f \in AllFields |->
        IF f \in ArrayFieldSet THEN List(<<>>)
        ELSE IF f = "experience_level" THEN Str("mid")
        ELSE IF f = "employment_type" THEN Str("full-time")
        ELSE Null])

\* _add_default_fields: only keys that are missing get the default
add_default_fields(partial_analysis) ==
  IF partial_analysis.k # "obj" THEN Raise("TypeError")
  ELSE Ok(Obj([f \in AllFields |->
                IF partial_analysis.v[f].k = "absent" THEN default_response.v[f]
                ELSE partial_analysis.v[f]]))

\* the chain with exclusive upper thresholds
level_of_twice_avg_exclusive(avg2) ==
  IF avg2 < 2 THEN "entry"
  ELSE IF avg2 < 6 THEN "junior"
  ELSE IF avg2 < 10 THEN "mid"
  ELSE IF avg2 < 16 THEN "senior"
  ELSE IF avg2 < 24 THEN "lead"
  ELSE "principal"

\* the if/elif chain of _detect_experience_level, on twice the average
level_of_twice_avg(avg2) ==
  IF avg2 <= 2 THEN "entry"
  ELSE IF avg2 <= 6 THEN "junior"
  ELSE IF avg2 <= 10 THEN "mid"
  ELSE IF avg2 <= 16 THEN "senior"
  ELSE IF avg2 <= 24 THEN "lead"
  ELSE "principal"

\* _detect_experience_level
detect_experience_level(analysis) ==
  LET mn == analysis.v.min_years_experience
      mx == analysis.v.max_years_experience
      min_years == IF Falsy(mn) THEN Num(0) ELSE mn
      max_years == IF Falsy(mx) THEN Num(0) ELSE mx
  IN IF max_years.k # "num" \/ min_years.k # "num" THEN Raise("TypeError")
     ELSE IF max_years.v > 0
          THEN Ok(level_of_twice_avg(min_years.v + max_years.v))
          ELSE Ok(level_of_twice_avg(2 * min_years.v))

RECURSIVE DedupLoopUntrimmedKey(_, _, _)
\* the for loop comparing skill.lower() without strip()
DedupLoopUntrimmedKey(skills, seen, unique_skills) ==
  IF skills = <<>> THEN unique_skills
  ELSE LET skill == Head(skills)
           skill_lower == Lower(skill)
       IN IF skill_lower \notin seen
          THEN DedupLoopUntrimmedKey(Tail(skills), seen \cup {skill_lower},
                                     Append(unique_skills, Strip(skill)))
          ELSE DedupLoopUntrimmedKey(Tail(skills), seen, unique_skills)

RECURSIVE DedupLoop(_, _, _)
\* the for loop of _deduplicate_skills
DedupLoop(skills, seen, unique_skills) ==
  IF skills = <<>> THEN unique_skills
  ELSE LET skill == Head(skills)
           skill_lower == Strip(Lower(skill))
       IN IF skill_lower \notin seen
          THEN DedupLoop(Tail(skills), seen \cup {skill_lower},
                         Append(unique_skills, Strip(skill)))
          ELSE DedupLoop(Tail(skills), seen, unique_skills)

RECURSIVE DedupLoopExact(_, _, _)
DedupLoopExact(skills, seen, unique_skills) ==
  IF skills = <<>> THEN unique_skills
  ELSE LET skill == Strip(Head(skills))
       IN IF skill \notin seen
          THEN DedupLoopExact(Tail(skills), seen \cup {skill},
                              Append(unique_skills, skill))
          ELSE DedupLoopExact(Tail(skills), seen, unique_skills)

\* the str elements of a JSON array of strings
Plain(x) == [i \in 1..Len(x.v) |-> x.v[i].v]

\* _deduplicate_skills comparing the skills as written
deduplicate_skills_case_sensitive(skills) ==
  IF Falsy(skills) THEN Ok(List(<<>>))
  ELSE IF skills.k = "list"
       THEN (IF IsStrList(skills)
             THEN Ok(L(DedupLoopExact(Plain(skills), {}, <<>>)))
             ELSE Raise("AttributeError"))
  ELSE IF skills.k = "str" THEN Ok(L(DedupLoopExact(Chars(skills.v), {}, <<>>)))
  ELSE Raise("TypeError")

\* _deduplicate_skills
deduplicate_skills(skills) ==
  IF Falsy(skills) THEN Ok(List(<<>>))
  ELSE IF skills.k = "list"
       THEN (IF IsStrList(skills) THEN Ok(L(DedupLoop(Plain(skills), {}, <<>>)))
             ELSE Raise("AttributeError"))
  ELSE IF skills.k = "str" THEN Ok(L(DedupLoop(Chars(skills.v), {}, <<>>)))
  ELSE Raise("TypeError")

\* the array loop filling in only the keys that are missing
ensure_arrays_missing_only(a) ==
  [f \in AllFields |->
     IF f \in ArrayFieldSet /\ a[f].k = "absent" THEN List(<<>>) ELSE a[f]]

\* _validate_and_clean, "Ensure arrays are not null"
ensure_arrays(a) ==
  [f \in AllFields |->
     IF f \in ArrayFieldSet /\ a[f].k \in {"absent", "null"}
     THEN List(<<>>) ELSE a[f]]

\* _validate_and_clean, "Ensure at least some required skills"
seed_required_skills(a) ==
  IF a.required_skills.v = <<>> /\ a.key_technologies.v # <<>>
  THEN [a EXCEPT !.required_skills = List(Take(a.key_technologies.v, 5))]
  ELSE a

\* _validate_and_clean, "Deduplicate skills" and what follows
deduplicate_fields(a) ==
  LET req == deduplicate_skills(a.required_skills)
      pref == deduplicate_skills(a.preferred_skills)
      tech == deduplicate_skills(a.key_technologies)
  IN IF req.exc # "none" THEN Raise(req.exc)
     ELSE IF pref.exc # "none" THEN Raise(pref.exc)
     ELSE IF tech.exc # "none" THEN Raise(tech.exc)
     ELSE Ok(Obj(seed_required_skills(
                   [a EXCEPT !.required_skills = req.val,
                             !.preferred_skills = pref.val,
                             !.key_technologies = tech.val])))

\* _validate_and_clean, "Validate employment type" and what follows
validate_employment_type(a) ==
  IF a.employment_type.k = "str" /\ a.employment_type.v \in valid_types
  THEN deduplicate_fields(a)
  ELSE deduplicate_fields([a EXCEPT !.employment_type = Str("full-time")])

\* _validate_and_clean, "Validate experience level" and what follows
validate_experience_level(a) ==
  IF a.experience_level.k = "str" /\ a.experience_level.v \in valid_levels
  THEN validate_employment_type(a)
  ELSE LET det == detect_experience_level(Obj(a))
       IN IF det.exc # "none" THEN Raise(det.exc)
          ELSE validate_employment_type(
                 [a EXCEPT !.experience_level = Str(det.val)])

\* _validate_and_clean
validate_and_clean(analysis) ==
  IF analysis.k # "obj" THEN Raise("TypeError")
  ELSE validate_experience_level(ensure_arrays(analysis.v))

\* _enhance_with_rules
enhance_with_rules(job_post, analysis) ==
  LET description == LowerDesc(job_post.description)
      a == analysis.v
      ym == years_match(description)
      found_tech == SelectSeq2(common_tech_enhance, description)
      remote ==
        IF ~Falsy(a.remote_policy) THEN a.remote_policy
        ELSE IF \E kw \in {"fully remote", "100% remote", "remote-first"} :
                  Contains(description, kw)
             THEN Str("fully-remote")
        ELSE IF \E kw \in {"hybrid", "flexible"} : Contains(description, kw)
             THEN Str("hybrid")
        ELSE IF Contains(description, "on-site") \/ Contains(description, "office")
             THEN Str("on-site")
        ELSE a.remote_policy
      minYears ==
        IF Falsy(a.min_years_experience) /\ ym.found THEN Num(ym.years)
        ELSE a.min_years_experience
      tech ==
        IF Falsy(a.key_technologies) THEN L(Take(found_tech, 10))
        ELSE a.key_technologies
  IN Obj([a EXCEPT !.remote_policy = remote,
                   !.min_years_experience = minYears,
                   !.key_technologies = tech])

\* _fallback_analysis
fallback_analysis(job_post) ==
  LET description == LowerDesc(job_post.description)
      d == default_response.v
      ym == years_match(description)
      found_tech == SelectSeq2(common_tech_fallback, description)
      withYears == Obj([EmptyObj.v EXCEPT !.min_years_experience = Num(ym.years)])
      employment ==
        IF Contains(description, "contract") THEN Str("contract")
        ELSE IF Contains(description, "part-time")
                \/ Contains(description, "part time") THEN Str("part-time")
        ELSE IF Contains(description, "intern") THEN Str("internship")
        ELSE d.employment_type
      remote ==
        IF \E kw \in {"fully remote", "100% remote"} : Contains(description, kw)
        THEN Str("fully-remote")
        ELSE IF Contains(description, "hybrid") THEN Str("hybrid")
        ELSE IF Contains(description, "on-site") THEN Str("on-site")
        ELSE d.remote_policy
  IN Obj([d EXCEPT
       !.min_years_experience = IF ym.found THEN Num(ym.years) ELSE @,
       !.experience_level =
          IF ym.found THEN Str(detect_experience_level(withYears).val) ELSE @,
       !.key_technologies = L(found_tech),
       !.required_skills = L(Take(found_tech, 5)),
       !.employment_type = employment,
       !.remote_policy = remote])

\* sep.join(value) without the slice
JoinAll(x, n) ==
  IF x.k = "list"
  THEN (IF IsStrList(x) THEN Ok(Plain(x)) ELSE Raise("TypeError"))
  ELSE IF x.k = "str" THEN Ok(Chars(x.v))
  ELSE Raise("TypeError")

\* sep.join(value[:n]) for a value read with analysis.get(field, [])
JoinFirst(x, n) ==
  IF x.k = "list"
  THEN (IF IsStrList(x) THEN Ok(Take(Plain(x), n)) ELSE Raise("TypeError"))
  ELSE IF x.k = "str" THEN Ok(Take(Chars(x.v), n))
  ELSE Raise("TypeError")

\* str(value) as an f-string renders it
Format(x) ==
  IF x.k = "str" THEN x.v
  ELSE IF x.k = "null" THEN "None"
  ELSE ToString(x.v)

\* _prepare_embedding_text: the labelled lines, in order; a line is its
\* label, its separator and the strings joined
prepare_embedding_text(job_post, analysis) ==
  LET a == analysis.v
      level == IF a.experience_level.k = "absent" THEN Str("Not specified")
               ELSE a.experience_level
      head == << [label |-> "Job Title", sep |-> "", parts |-> <<job_post.title>>],
                 [label |-> "Company", sep |-> "", parts |-> <<job_post.company>>],
                 [label |-> "Experience Level", sep |-> "", parts |-> <<Format(level)>>] >>
      rs == JoinFirst(a.required_skills, 10)
      kt == JoinFirst(a.key_technologies, 8)
      rp == JoinFirst(a.responsibilities, 3)
      l1 == IF Falsy(a.required_skills) THEN <<>>
            ELSE << [label |-> "Required Skills", sep |-> ", ", parts |-> rs.val] >>
      l2 == IF Falsy(a.key_technologies) THEN <<>>
            ELSE << [label |-> "Technologies", sep |-> ", ", parts |-> kt.val] >>
      l3 == IF Falsy(a.responsibilities) THEN <<>>
            ELSE << [label |-> "Key Responsibilities", sep |-> " ", parts |-> rp.val] >>
  IN IF ~Falsy(a.required_skills) /\ rs.exc # "none" THEN Raise(rs.exc)
     ELSE IF ~Falsy(a.key_technologies) /\ kt.exc # "none" THEN Raise(kt.exc)
     ELSE IF ~Falsy(a.responsibilities) /\ rp.exc # "none" THEN Raise(rp.exc)
     ELSE Ok(head \o l1 \o l2 \o l3)

\* the markdown code fence (three backquotes), bare and with the json tag
Fence == "<fence>"

FenceJson == "<fence>json"

\* _clean_json_response: a response text is a prefix, a body and a suffix
clean_json_response(text) ==
  LET t1 == IF text.pre = FenceJson THEN [text EXCEPT !.pre = ""]
            ELSE IF text.pre = Fence THEN [text EXCEPT !.pre = ""]
            ELSE text
  IN IF t1.post = Fence THEN [t1 EXCEPT !.post = ""] ELSE t1

\* json.loads
json_loads(text) ==
  IF text.pre = "" /\ text.post = "" /\ text.body # Garbage THEN Ok(text.body)
  ELSE Raise("JSONDecodeError")

\* llm_service.generate_structured followed by clean + parse
generate_and_parse(out) ==
  IF out.k = "raise" THEN Raise("Exception")
  ELSE json_loads(clean_json_response(out.text))

\* _simple_llm_analysis (out2: the outcome of the reduced-prompt call)
simple_llm_analysis(job_post, out2) ==
  LET result == generate_and_parse(out2)
      filled == add_default_fields(result.val)
  IN IF result.exc # "none" THEN default_response
     ELSE IF filled.exc # "none" THEN default_response
     ELSE filled.val

\* _analyze_with_llm calling the reduced prompt after any failure of the
\* first call
analyze_with_llm_retry_any(job_post, out1, out2) ==
  LET parsed == generate_and_parse(out1)
  IN IF parsed.exc = "none"
     THEN [val |-> parsed.val, calls |-> 1, branch |-> "parsed"]
     ELSE IF parsed.exc = "JSONDecodeError"
     THEN [val |-> simple_llm_analysis(job_post, out2), calls |-> 2,
           branch |-> "retry"]
     ELSE [val |-> default_response, calls |-> 2, branch |-> "retry"]

\* _analyze_with_llm (out1: the outcome of the full-prompt call); calls counts
\* the invocations of generate_structured
analyze_with_llm(job_post, out1, out2) ==
  LET parsed == generate_and_parse(out1)
  IN IF parsed.exc = "none"
     THEN [val |-> parsed.val, calls |-> 1, branch |-> "parsed"]
     ELSE IF parsed.exc = "JSONDecodeError"
     THEN [val |-> simple_llm_analysis(job_post, out2), calls |-> 2,
           branch |-> "retry"]
     ELSE [val |-> default_response, calls |-> 1, branch |-> "default"]

\* analyze_job, the except branch
analyze_job_fallback(job_post, calls, fb) ==
  [analysis |-> fb,
   embedding_text |-> prepare_embedding_text(job_post, fb).val,
   path |-> "fallback", calls |-> calls]

\* analyze_job, the return of the try branch
analyze_job_return(job_post, calls, enhanced, text) ==
  IF text.exc = "none"
  THEN [analysis |-> enhanced, embedding_text |-> text.val, path |-> "llm",
        calls |-> calls]
  ELSE analyze_job_fallback(job_post, calls, fallback_analysis(job_post))

\* analyze_job, steps 3 and 4
analyze_job_enhance(job_post, calls, enhanced) ==
  analyze_job_return(job_post, calls, enhanced,
                     prepare_embedding_text(job_post, enhanced))

\* analyze_job, steps 2 to 4
analyze_job_validated(job_post, calls, cleaned) ==
  IF cleaned.exc = "none"
  THEN analyze_job_enhance(job_post, calls,
                           enhance_with_rules(job_post, cleaned.val))
  ELSE analyze_job_fallback(job_post, calls, fallback_analysis(job_post))

\* analyze_job, after step 1
analyze_job_after_llm(job_post, llm) ==
  analyze_job_validated(job_post, llm.calls, validate_and_clean(llm.val))

\* JobAnalyzerService.analyze_job
analyze_job(job_post, out1, out2) ==
  analyze_job_after_llm(job_post, analyze_with_llm(job_post, out1, out2))

\* ------------------------------------------------------------------ inputs
RECURSIVE SeqsUpTo(_, _)
SeqsUpTo(S, n) ==
  IF n = 0 THEN {<<>>}
  ELSE LET shorter == SeqsUpTo(S, n - 1)
       IN shorter \cup {Append(q, x) : q \in shorter, x \in S}

Descriptions == SeqsUpTo(DescTokens, MaxDescLen)

JobPosts ==
  {[title |-> "Engineer", company |-> "Acme", description |-> d] :
     d \in Descriptions}

SalaryOk ==
  Obj([min |-> Num(50000), max |-> Num(70000), currency |-> Str("USD"),
       period |-> Str("annual")])

SalaryBad ==
  Obj([min |-> Str("high"), max |-> Null, currency |-> Null, period |-> Null])

\* an answer that follows the prompt
FullObj ==
  Obj([required_skills |-> L(<<"Python", "AWS">>),
       preferred_skills |-> L(<<"Docker">>),
       education_requirements |-> L(<<"BSc">>),
       certifications |-> L(<<"CKA">>),
       responsibilities |-> L(<<"Build APIs">>),
       benefits |-> L(<<"Health">>),
       key_technologies |-> L(<<"Docker", "AWS">>),
       soft_skills |-> L(<<"Teamwork">>),
       experience_level |-> Str("senior"),
       min_years_experience |-> Num(5),
       max_years_experience |-> Num(8),
       salary_range |-> SalaryOk,
       employment_type |-> Str("contract"),
       remote_policy |-> Str("flexible"),
       industry |-> Str("Technology"),
       company_size |-> Str("startup")])

\* the values an answer may carry in one field, besides leaving it out
FieldValues(f) ==
  CASE f = "required_skills" ->
         {Null, List(<<>>), L(<<"Python", "python", " Python ">>), Num(5),
          Str("Go"), List(<<Num(7)>>)}
    [] f = "preferred_skills" -> {Null, L(<<"aws", "AWS">>)}
    [] f = "key_technologies" -> {Null, List(<<>>), L(<<"Docker", "docker", "AWS">>)}
    [] f = "soft_skills" -> {Null, L(<<"Teamwork", "teamwork">>), Str("Teamwork")}
    [] f = "education_requirements" -> {Null, L(<<"BSc">>), Str("BSc")}
    [] f = "certifications" -> {Null, L(<<"CKA">>)}
    [] f = "responsibilities" -> {Null, L(<<"Build APIs">>), Num(5), List(<<Num(7)>>)}
    [] f = "benefits" -> {Null, L(<<"Health">>)}
    [] f = "experience_level" -> {Null, Str("lead"), Str("Senior"), Str("expert")}
    [] f = "employment_type" -> {Null, Str("part-time"), Str("freelance")}
    [] f = "min_years_experience" -> {Null, Num(0), Num(3), Str("five")}
    [] f = "max_years_experience" -> {Null, Num(0), Num(4), Str("ten")}
    [] f = "remote_policy" -> {Null, Str(""), Str("on-site"), Num(1)}
    [] f = "salary_range" -> {Null, SalaryOk, SalaryBad, Str("100k")}
    [] f = "industry" -> {Null, Str("Finance")}
    [] f = "company_size" -> {Null, Str("large")}

\* base with one field replaced or removed
Deviations(base) ==
  UNION {{Obj([base.v EXCEPT ![f] = x]) : x \in FieldValues(f) \cup {Absent}} :
           f \in AllFields}

\* answers that carry only the two year fields
YearPairs ==
  {Obj([EmptyObj.v EXCEPT !.min_years_experience = mn,
                          !.max_years_experience = mx]) :
     mn \in {Absent, Num(0), Num(1), Num(3), Num(13), Str("five")},
     mx \in {Absent, Num(0), Num(2), Num(8), Str("ten")}}

\* JSON documents that json.loads accepts
Bodies ==
  {EmptyObj, FullObj} \cup Deviations(EmptyObj) \cup Deviations(FullObj)
  \cup YearPairs \cup {Null, List(<<>>), Str("n/a"), Num(42)}

\* what the reduced prompt asks for
ReducedObj ==
  Obj([EmptyObj.v EXCEPT !.required_skills = L(<<"Python", "python">>),
                         !.experience_level = Str("mid"),
                         !.responsibilities = L(<<"Build APIs">>),
                         !.employment_type = Str("full-time")])

RetryBodies ==
  {EmptyObj, ReducedObj, Num(42),
   Obj([ReducedObj.v EXCEPT !.required_skills = Null,
                            !.experience_level = Null,
                            !.min_years_experience = Num(13)])}

Bare(b) == [k |-> "text", text |-> [pre |-> "", body |-> b, post |-> ""]]

Wrapped(pre, b, post) ==
  [k |-> "text", text |-> [pre |-> pre, body |-> b, post |-> post]]

LLMRaises == [k |-> "raise"]

\* outcomes of generate_structured for the full prompt
LLMOutcomes ==
  {LLMRaises} \cup {Bare(b) : b \in Bodies \cup {Garbage}}
  \cup {Wrapped(FenceJson, FullObj, Fence), Wrapped(Fence, FullObj, Fence),
        Wrapped(Fence, FullObj, ""), Wrapped("Sure:", FullObj, ""),
        Wrapped(FenceJson, Garbage, Fence)}

\* outcomes of generate_structured for the reduced prompt
RetryOutcomes ==
  {LLMRaises, Bare(Garbage), Wrapped(FenceJson, ReducedObj, Fence)}
  \cup {Bare(b) : b \in RetryBodies}

NoOutcome == [k |-> "none"]

\* ------------------------------------------------------------------- state
VARIABLES
  svc,             \* one run of JobAnalyzerService.analyze_job, stage by stage
  req,             \* the analyze requests: position in the handler and locals
  job_analyses,    \* table job_analyses, in insertion order
  job_embeddings,  \* table job_embeddings, in insertion order
  write_log,       \* requests in the order of their create_job_analysis calls
  fn,              \* one call of a function of the service: arguments, result
  matcher,         \* candidate matching: the stored corpus and one request
  posts,           \* table job_posts: row i has id i
  job_status_history,  \* table job_status_history, in insertion order
  job_views,       \* table job_views, in insertion order
  saved_jobs,      \* table saved_jobs, in insertion order
  applications,    \* table applications, in insertion order
  viewer,          \* the GET /jobs/{job_id} requests: position and locals
  last             \* the latest request served whole, and its status code

\* the job board: job posts, their status history, views and applications
boardVars ==
  <<posts, job_status_history, job_views, saved_jobs, applications, viewer, last>>

\* the state outside the analyzer and the analyze endpoint
restVars == <<fn, matcher, boardVars>>

vars == <<svc, req, job_analyses, job_embeddings, write_log, restVars>>

\* no function call in progress
FnIdle == [op |-> "", pc |-> "off", input |-> Null, output |-> Null, again |-> Null]

\* no job embedding, no candidate document, no matching request
MatcherIdle ==
  [pc |-> "off", job |-> [embedding |-> Null, required_skills |-> Null],
   candidates |-> <<>>, job_id |-> 0, limit |-> 0, min_score |-> 0,
   status |-> 0, matches |-> <<>>]

NumViewers == 3        \* GET /jobs/{job_id} requests

NoRequest == [op |-> "", args |-> Null, code |-> 0]

\* job_id and views_count are the request's locals; overlapped is not a
\* value of the program: it notes that another request was between its read
\* and its commit while this one was
ViewerIdle ==
  [pc |-> "idle", job_id |-> 0, views_count |-> 0, code |-> 0,
   overlapped |-> FALSE]

\* an empty database and no request
BoardIdle ==
  /\ posts = <<>>
  /\ job_status_history = <<>>
  /\ job_views = <<>>
  /\ saved_jobs = <<>>
  /\ applications = <<>>
  /\ viewer = [v \in 1..NumViewers |-> ViewerIdle]
  /\ last = NoRequest

\* the state outside the analyzer and the analyze endpoint, unused
RestIdle == fn = FnIdle /\ matcher = MatcherIdle /\ BoardIdle

\* ------------------------------------- JobAnalyzerService, stage by stage
SvcIdle ==
  [pc |-> "off", job_post |-> [title |-> "", company |-> "", description |-> <<>>],
   out1 |-> NoOutcome, out2 |-> NoOutcome, branch |-> "", calls |-> 0,
   raw |-> Null, cleaned |-> Null, analysis |-> Null, embedding_text |-> <<>>,
   path |-> ""]

InitAnalyzer ==
  /\ svc \in {[SvcIdle EXCEPT !.pc = "llm", !.job_post = j] : j \in JobPosts}
  /\ req = [r \in 1..NumRequests |-> [pc |-> "off"]]
  /\ job_analyses = <<>>
  /\ job_embeddings = <<>>
  /\ write_log = <<>>
  /\ RestIdle

EndpointUnchanged ==
  UNCHANGED <<req, job_analyses, job_embeddings, write_log, restVars>>

\* analyze_job, step 1: _analyze_with_llm.  The reduced-prompt outcome is
\* drawn only when the first response fails to parse.
SvcAnalyzeWithLLM ==
  /\ svc.pc = "llm"
  /\ \E out1 \in LLMOutcomes :
       \E out2 \in (IF generate_and_parse(out1).exc = "JSONDecodeError"
                    THEN RetryOutcomes ELSE {NoOutcome}) :
         LET llm == analyze_with_llm(svc.job_post, out1, out2)
         IN svc' = [svc EXCEPT !.pc = "validate", !.out1 = out1, !.out2 = out2,
                               !.raw = llm.val, !.calls = llm.calls,
                               !.branch = llm.branch]
  /\ EndpointUnchanged

\* analyze_job, step 2: _validate_and_clean; an exception leads to the
\* except branch of analyze_job
SvcValidateAndClean ==
  /\ svc.pc = "validate"
  /\ LET r == validate_and_clean(svc.raw)
     IN svc' = IF r.exc = "none"
               THEN [svc EXCEPT !.pc = "enhance", !.cleaned = r.val,
                                !.analysis = r.val]
               ELSE [svc EXCEPT !.pc = "fallback"]
  /\ EndpointUnchanged

\* analyze_job, step 3: _enhance_with_rules
SvcEnhanceWithRules ==
  /\ svc.pc = "enhance"
  /\ svc' = [svc EXCEPT !.pc = "embedding_text",
                        !.analysis = enhance_with_rules(svc.job_post, svc.analysis)]
  /\ EndpointUnchanged

\* analyze_job, step 4: _prepare_embedding_text and return
SvcPrepareEmbeddingText ==
  /\ svc.pc = "embedding_text"
  /\ LET t == prepare_embedding_text(svc.job_post, svc.analysis)
     IN svc' = IF t.exc = "none"
               THEN [svc EXCEPT !.pc = "returned", !.embedding_text = t.val,
                                !.path = "llm"]
               ELSE [svc EXCEPT !.pc = "fallback"]
  /\ EndpointUnchanged

\* analyze_job, except branch: _fallback_analysis and return
SvcFallbackAnalysis ==
  /\ svc.pc = "fallback"
  /\ LET fb == fallback_analysis(svc.job_post)
     IN svc' = [svc EXCEPT !.pc = "returned", !.analysis = fb,
                  !.embedding_text = prepare_embedding_text(svc.job_post, fb).val,
                  !.path = "fallback"]
  /\ EndpointUnchanged

NextAnalyzer ==
  \/ SvcAnalyzeWithLLM
  \/ SvcValidateAndClean
  \/ SvcEnhanceWithRules
  \/ SvcPrepareEmbeddingText
  \/ SvcFallbackAnalysis

SpecAnalyzer == InitAnalyzer /\ [][NextAnalyzer]_vars

\* the staged run returns what the operator analyze_job computes
StagedRunIsAnalyzeJob ==
  svc.pc = "returned" =>
    LET r == analyze_job(svc.job_post, svc.out1, svc.out2)
    IN /\ r.analysis = svc.analysis
       /\ r.embedding_text = svc.embedding_text
       /\ r.path = svc.path
       /\ r.calls = svc.calls

\* ------------------------------------------ POST /jobs/{job_id}/analyze
JobIds == 1..NumJobs

\* table job_posts; the request may also name an id that is not in it
job_posts ==
  [j \in JobIds |-> [title |-> "Engineer", company |-> "Acme",
                     description |-> <<"10+ Years", "Python">>]]

RequestedIds == 1..(NumJobs + 1)

\* extraction outcomes offered to a request
EndpointOutcomes ==
  {LLMRaises, Bare(Garbage), Bare(FullObj), Wrapped("Sure:", FullObj, ""),
   Bare(Obj([FullObj.v EXCEPT !.education_requirements = Str("BSc")])),
   Bare(Obj([FullObj.v EXCEPT !.salary_range = Str("100k")])),
   Bare(Obj([FullObj.v EXCEPT !.min_years_experience = Null,
                              !.max_years_experience = Num(2)])),
   Bare(Obj([FullObj.v EXCEPT !.min_years_experience = Num(13),
                              !.max_years_experience = Num(2)]))}

EndpointRetryOutcomes == {Bare(Garbage), Bare(ReducedObj)}

\* outcomes of step 6 up to embed_document
EmbedOutcomes == {"ok", "no_service", "embed_raises"}

NoResponse == [status |-> 0, error |-> "", body |-> Null]

\* analyzer_service.analyze_job not called
NoResult ==
  [analysis |-> Null, embedding_text |-> <<>>, path |-> "", calls |-> 0]

ReqIdle ==
  [pc |-> "idle", job_id |-> 0, out1 |-> NoOutcome, result |-> NoResult,
   analysis_create |-> Null,
   db_analysis |-> Null, embedding_vector |-> "unbound",
   existing_embedding |-> FALSE, embed_calls |-> 0, path |-> "",
   response |-> NoResponse]

Init ==
  /\ svc = SvcIdle
  /\ req = [r \in 1..NumRequests |-> ReqIdle]
  /\ job_analyses = <<>>
  /\ job_embeddings = <<>>
  /\ write_log = <<>>
  /\ RestIdle

RowsOf(table, job_id) == {i \in 1..Len(table) : table[i].job_post_id = job_id}

\* Optional[int] accepts None and integers
OptionalInt(x) == x.k \in {"absent", "null", "num"}

\* Optional[str] accepts None and strings
OptionalStr(x) == x.k \in {"absent", "null", "str"}

\* SalaryRange(**value)
SalaryRange(value) ==
  IF value.k # "obj" THEN Raise("TypeError")
  ELSE IF /\ OptionalInt(value.v.min) /\ OptionalInt(value.v.max)
          /\ OptionalStr(value.v.currency) /\ OptionalStr(value.v.period)
       THEN Ok(value)
       ELSE Raise("ValidationError")

\* dict.get(key) of a key that may be missing
Get(x) == IF x.k = "absent" THEN Null ELSE x

\* steps 4 and 5 of the handler up to the JobAnalysisCreate constructor
JobAnalysisCreate(job_id, analysis_result) ==
  LET a == analysis_result.v
      salary == IF Falsy(a.salary_range) THEN Ok(Null)
                ELSE SalaryRange(a.salary_range)
      fieldsOk ==
        /\ \A f \in ArrayFieldSet : IsStrList(a[f])
        /\ a.experience_level.k = "str"
        /\ a.employment_type.k = "str"
        /\ OptionalInt(a.min_years_experience)
        /\ OptionalInt(a.max_years_experience)
        /\ OptionalStr(a.remote_policy)
        /\ OptionalStr(a.industry)
        /\ OptionalStr(a.company_size)
  IN IF salary.exc # "none" THEN Raise(salary.exc)
     ELSE IF ~fieldsOk THEN Raise("ValidationError")
     ELSE Ok([job_post_id |-> job_id,
              analysis |-> Obj([f \in AllFields |->
                                 IF f = "salary_range" THEN salary.val
                                 ELSE Get(a[f])])])

\* the except clauses of the handler: ValueError (pydantic's ValidationError
\* is one) gives 400, any other exception 500
ErrorResponse(exc) ==
  [status |-> IF exc = "ValidationError" THEN 400 ELSE 500, error |-> exc,
   body |-> Null]

\* a table without the constraint
UniqueViolationNever(table, job_id) == FALSE

\* UNIQUE(job_post_id) of table job_analyses rejects the INSERT
UniqueViolation(table, job_id) == RowsOf(table, job_id) # {}

\* a lookup that never finds the row
get_job_analysis_by_job_id_miss(table, job_post_id) == {}

\* get_job_analysis_by_job_id: the rows the query matches
get_job_analysis_by_job_id(table, job_post_id) == RowsOf(table, job_post_id)

\* steps 1 and 2 with a cached analysis sent on to step 6 when the job has
\* no embedding
LookupEmbedsWhenMissing(r) ==
  /\ req[r].pc = "idle"
  /\ \E job_id \in RequestedIds :
       LET existing == get_job_analysis_by_job_id(job_analyses, job_id)
       IN req' = [req EXCEPT ![r] =
            IF job_id \notin JobIds
            THEN [@ EXCEPT !.pc = "done", !.job_id = job_id, !.path = "not_found",
                           !.response = [status |-> 404, error |-> "HTTPException",
                                         body |-> Null]]
            ELSE IF existing # {} /\ RowsOf(job_embeddings, job_id) = {}
            THEN [@ EXCEPT !.pc = "embed", !.job_id = job_id, !.path = "cached"]
            ELSE IF existing # {}
            THEN [@ EXCEPT !.pc = "done", !.job_id = job_id, !.path = "cached",
                   !.response =
                     [status |-> 200, error |-> "",
                      body |-> job_analyses[CHOOSE i \in existing :
                                              \A k \in existing : i <= k].analysis]]
            ELSE [@ EXCEPT !.pc = "analyze", !.job_id = job_id, !.path = "fresh"]]
  /\ UNCHANGED <<restVars, svc, job_analyses, job_embeddings, write_log>>

\* steps 1 and 2: the job lookup and the cached-analysis check
Lookup(r) ==
  /\ req[r].pc = "idle"
  /\ \E job_id \in RequestedIds :
       LET existing == get_job_analysis_by_job_id(job_analyses, job_id)
       IN req' = [req EXCEPT ![r] =
            IF job_id \notin JobIds
            THEN [@ EXCEPT !.pc = "done", !.job_id = job_id, !.path = "not_found",
                           !.response = [status |-> 404, error |-> "HTTPException",
                                         body |-> Null]]
            ELSE IF existing # {}
            THEN [@ EXCEPT !.pc = "done", !.job_id = job_id, !.path = "cached",
                   !.response =
                     [status |-> 200, error |-> "",
                      body |-> job_analyses[CHOOSE i \in existing :
                                              \A k \in existing : i <= k].analysis]]
            ELSE [@ EXCEPT !.pc = "analyze", !.job_id = job_id, !.path = "fresh"]]
  /\ UNCHANGED <<restVars, svc, job_analyses, job_embeddings, write_log>>

\* step 3: analyzer_service.analyze_job
RunAnalyzer(r) ==
  /\ req[r].pc = "analyze"
  /\ \E out1 \in EndpointOutcomes :
       \E out2 \in (IF generate_and_parse(out1).exc = "JSONDecodeError"
                    THEN EndpointRetryOutcomes ELSE {NoOutcome}) :
         req' = [req EXCEPT ![r].pc = "validate", ![r].out1 = out1,
                   ![r].result = analyze_job(job_posts[req[r].job_id], out1, out2)]
  /\ UNCHANGED <<restVars, svc, job_analyses, job_embeddings, write_log>>

\* steps 4 and 5: the pydantic models; their exceptions end the request
BuildAnalysisCreate(r) ==
  /\ req[r].pc = "validate"
  /\ LET created == JobAnalysisCreate(req[r].job_id, req[r].result.analysis)
     IN req' = [req EXCEPT ![r] =
          IF created.exc # "none"
          THEN [@ EXCEPT !.pc = "done", !.response = ErrorResponse(created.exc)]
          ELSE [@ EXCEPT !.pc = "store", !.analysis_create = created.val]]
  /\ UNCHANGED <<restVars, svc, job_analyses, job_embeddings, write_log>>

\* create_job_analysis: INSERT and commit
StoreAnalysis(r) ==
  /\ req[r].pc = "store"
  /\ write_log' = Append(write_log, r)
  /\ IF UniqueViolation(job_analyses, req[r].job_id)
     THEN /\ req' = [req EXCEPT ![r].pc = "done",
                                ![r].response = ErrorResponse("IntegrityError")]
          /\ UNCHANGED job_analyses
     ELSE /\ job_analyses' = Append(job_analyses, req[r].analysis_create)
          /\ req' = [req EXCEPT ![r].pc = "embed",
                                ![r].db_analysis = req[r].analysis_create.analysis]
  /\ UNCHANGED <<restVars, svc, job_embeddings>>

\* step 6, first half: get_embeddings_service, embed_document and the query
\* for an existing embedding; a failure is logged by the inner except
Embed(r) ==
  /\ req[r].pc = "embed"
  /\ \E outcome \in EmbedOutcomes :
       req' = [req EXCEPT ![r] =
         IF outcome = "no_service" THEN [@ EXCEPT !.pc = "respond"]
         ELSE IF outcome = "embed_raises"
         THEN [@ EXCEPT !.pc = "respond", !.embed_calls = @ + 1]
         ELSE [@ EXCEPT !.pc = "embed_write", !.embed_calls = @ + 1,
                 !.embedding_vector = "bound",
                 !.existing_embedding =
                    RowsOf(job_embeddings, req[r].job_id) # {}]]
  /\ UNCHANGED <<restVars, svc, job_analyses, job_embeddings, write_log>>

\* step 6, second half: update the row found, or add a new one; commit
EmbedWrite(r) ==
  /\ req[r].pc = "embed_write"
  /\ LET row == [job_post_id |-> req[r].job_id,
                 embedded_text |-> req[r].result.embedding_text]
     IN job_embeddings' =
          IF req[r].existing_embedding
          THEN [i \in 1..Len(job_embeddings) |->
                  IF job_embeddings[i].job_post_id = req[r].job_id
                  THEN row ELSE job_embeddings[i]]
          ELSE Append(job_embeddings, row)
  /\ req' = [req EXCEPT ![r].pc = "respond"]
  /\ UNCHANGED <<restVars, svc, job_analyses, write_log>>

\* the return statement: len(embedding_vector) raises UnboundLocalError when
\* the embedding step failed before the assignment
Respond(r) ==
  /\ req[r].pc = "respond"
  /\ req' = [req EXCEPT ![r].pc = "done", ![r].response =
       IF req[r].embedding_vector = "unbound"
       THEN ErrorResponse("UnboundLocalError")
       ELSE [status |-> 200, error |-> "", body |-> req[r].db_analysis]]
  /\ UNCHANGED <<restVars, svc, job_analyses, job_embeddings, write_log>>

Next ==
  \E r \in 1..NumRequests :
    \/ Lookup(r)
    \/ RunAnalyzer(r)
    \/ BuildAnalysisCreate(r)
    \/ StoreAnalysis(r)
    \/ Embed(r)
    \/ EmbedWrite(r)
    \/ Respond(r)

Spec == Init /\ [][Next]_vars

\* ------------------------------------- functions of JobAnalyzerService
MaxSkills == 3         \* entries in a skill list handed to _deduplicate_skills
MaxYears == 14         \* largest year count handed to _detect_experience_level

\* the strings a skill list is made of
SkillTokens == {"Python", "python", " Python ", "AWS", "aws", ""}

SkillLists == {L(q) : q \in SeqsUpTo(SkillTokens, MaxSkills)}

\* values of min_years_experience / max_years_experience
YearValues == {Absent, Null, Str("five")} \cup {Num(n) : n \in -1..MaxYears}

\* analyses as _detect_experience_level reads them
YearInputs ==
  {Obj([EmptyObj.v EXCEPT !.min_years_experience = mn,
                          !.max_years_experience = mx]) :
     mn \in YearValues, mx \in YearValues}

\* twice avg_years of _detect_experience_level, for numeric year fields
twice_avg_years(analysis) ==
  LET mn == analysis.v.min_years_experience
      mx == analysis.v.max_years_experience
      min_years == IF Falsy(mn) THEN 0 ELSE mn.v
      max_years == IF Falsy(mx) THEN 0 ELSE mx.v
  IN IF max_years > 0 THEN min_years + max_years ELSE 2 * min_years

Skills11 ==
  <<"Python", "Java", "Go", "Rust", "SQL", "AWS", "Docker", "Git", "Linux",
    "React", "Kafka">>

Tech9 ==
  <<"Docker", "Kubernetes", "AWS", "Azure", "PostgreSQL", "MongoDB", "Redis",
    "Kafka", "Terraform">>

Resp4 == <<"Build APIs", "Review code", "Mentor juniors", "Be on call">>

\* an analysis with more entries than the embedding text takes
EmbedBase ==
  Obj([FullObj.v EXCEPT !.required_skills = L(Skills11),
                        !.key_technologies = L(Tech9),
                        !.responsibilities = L(Resp4)])

\* the values one field of EmbedBase is varied over
EmbedFieldValues(f) ==
  CASE f = "required_skills" ->
         {Absent, Null, List(<<>>), L(Take(Skills11, 10)), L(Take(Skills11, 2)),
          L([Skills11 EXCEPT ![11] = "Spark"]), L([Skills11 EXCEPT ![10] = "Vue"]),
          L(Append(Skills11, "Spark")), Str("Go"), Num(5)}
    [] f = "key_technologies" ->
         {Absent, List(<<>>), L(Take(Tech9, 8)), L([Tech9 EXCEPT ![9] = "Helm"]),
          L([Tech9 EXCEPT ![8] = "Pulsar"])}
    [] f = "responsibilities" ->
         {Absent, List(<<>>), L(Take(Resp4, 3)), L([Resp4 EXCEPT ![4] = "Travel"]),
          L([Resp4 EXCEPT ![3] = "Hire"]), List(<<Num(7)>>)}
    [] f = "experience_level" ->
         {Absent, Null, Str("lead"), Str("Not specified")}
    [] f = "benefits" -> {List(<<>>), L(<<"Pension">>)}
    [] f = "soft_skills" -> {L(<<"Curiosity">>)}
    [] f = "min_years_experience" -> {Null, Num(9)}
    [] f = "remote_policy" -> {Str("hybrid")}
    [] f = "salary_range" -> {Null}
    [] OTHER -> {}

EmbedAnalyses ==
  {EmbedBase}
  \cup UNION {{Obj([EmbedBase.v EXCEPT ![f] = x]) : x \in EmbedFieldValues(f)} :
                f \in AllFields}

EmbedJobs ==
  {[title |-> "Engineer", company |-> "Acme", description |-> <<"Python">>],
   [title |-> "Analyst", company |-> "Acme", description |-> <<"Python">>],
   [title |-> "Engineer", company |-> "Globex", description |-> <<"Python">>],
   [title |-> "Engineer", company |-> "Acme", description |-> <<"2 years", "hybrid">>]}

\* arguments of _prepare_embedding_text
EmbedArgs == {[job_post |-> j, analysis |-> a] : j \in EmbedJobs, a \in EmbedAnalyses}

FnCall(op, input) ==
  [op |-> op, pc |-> "call", input |-> input, output |-> Null, again |-> Null]

InitFunctions ==
  /\ svc = SvcIdle
  /\ req = [r \in 1..NumRequests |-> [pc |-> "off"]]
  /\ job_analyses = <<>>
  /\ job_embeddings = <<>>
  /\ write_log = <<>>
  /\ fn \in {FnCall("deduplicate_skills", x) : x \in SkillLists}
            \cup {FnCall("detect_experience_level", x) : x \in YearInputs}
            \cup {FnCall("prepare_embedding_text", <<x, y>>) :
                    x \in EmbedArgs, y \in EmbedArgs}
            \cup {FnCall("fallback_analysis", j) : j \in JobPosts}
  /\ matcher = MatcherIdle
  /\ BoardIdle

FnUnchanged ==
  UNCHANGED <<svc, req, job_analyses, job_embeddings, write_log, matcher,
              boardVars>>

\* _deduplicate_skills(skills)
FnDeduplicateSkills ==
  /\ fn.op = "deduplicate_skills" /\ fn.pc = "call"
  /\ fn' = [fn EXCEPT !.pc = "returned", !.output = deduplicate_skills(fn.input)]
  /\ FnUnchanged

\* _deduplicate_skills applied to its own result
FnDeduplicateAgain ==
  /\ fn.op = "deduplicate_skills" /\ fn.pc = "returned"
  /\ fn.output.exc = "none"
  /\ fn' = [fn EXCEPT !.pc = "again", !.again = deduplicate_skills(fn.output.val)]
  /\ FnUnchanged

\* _detect_experience_level(analysis)
FnDetectExperienceLevel ==
  /\ fn.op = "detect_experience_level" /\ fn.pc = "call"
  /\ fn' = [fn EXCEPT !.pc = "returned",
                      !.output = detect_experience_level(fn.input)]
  /\ FnUnchanged

\* _prepare_embedding_text(job_post, analysis), for two argument pairs
FnPrepareEmbeddingText ==
  /\ fn.op = "prepare_embedding_text" /\ fn.pc = "call"
  /\ fn' = [fn EXCEPT !.pc = "returned", !.output =
              << prepare_embedding_text(fn.input[1].job_post, fn.input[1].analysis),
                 prepare_embedding_text(fn.input[2].job_post, fn.input[2].analysis) >>]
  /\ FnUnchanged

\* _fallback_analysis(job_post), and _enhance_with_rules on the same job
\* post with the analysis of _default_response, whose remote_policy,
\* min_years_experience and key_technologies are empty
FnFallbackAnalysis ==
  /\ fn.op = "fallback_analysis" /\ fn.pc = "call"
  /\ fn' = [fn EXCEPT !.pc = "returned",
                      !.output = fallback_analysis(fn.input),
                      !.again = enhance_with_rules(fn.input, default_response)]
  /\ FnUnchanged

NextFunctions ==
  \/ FnDeduplicateSkills
  \/ FnDeduplicateAgain
  \/ FnDetectExperienceLevel
  \/ FnPrepareEmbeddingText
  \/ FnFallbackAnalysis

SpecFunctions == InitFunctions /\ [][NextFunctions]_vars

\* ------------------------------ GET /jobs/{job_id}/matching-candidates
NumCandidates == 3     \* candidate documents with a stored embedding
MaxLimit == 2          \* largest limit a request asks for

\* embedding vectors: two unit vectors and a zero-length one
CandidateVectors == {<<1, 0>>, <<-1, 0>>, <<>>}

\* what the analyze endpoint left for job 1: its embedding and the
\* required_skills of its analysis, either of them possibly missing
MatcherJobs ==
  {[embedding |-> e, required_skills |-> rs] :
     e \in {Null} \cup {[k |-> "vector", v |-> x] : x \in CandidateVectors},
     rs \in {Null, L(<<"Python", "AWS">>)}}

InitMatcher ==
  /\ svc = SvcIdle
  /\ req = [r \in 1..NumRequests |-> [pc |-> "off"]]
  /\ job_analyses = <<>>
  /\ job_embeddings = <<>>
  /\ write_log = <<>>
  /\ fn = FnIdle
  /\ matcher \in {[MatcherIdle EXCEPT !.pc = "idle", !.job = j] : j \in MatcherJobs}
  /\ BoardIdle

MatcherUnchanged ==
  UNCHANGED <<svc, req, job_analyses, job_embeddings, write_log, fn, boardVars>>

\* the document-parsing subsystem stores a candidate document's embedding
\* and the skills the document mentions
StoreCandidate ==
  /\ matcher.pc = "idle"
  /\ Len(matcher.candidates) < NumCandidates
  /\ \E x \in CandidateVectors, m \in {{}, {"Python"}, {"Python", "AWS"}} :
       matcher' = [matcher EXCEPT !.candidates =
                     Append(@, [id |-> Len(@) + 1, embedding |-> x, skills |-> m])]
  /\ MatcherUnchanged

\* cosine similarity of two unit vectors mapped into [0,1], in thousandths
SemanticSimilarity(u, v) == (u[1] * v[1] + u[2] * v[2] + 1) * 500

\* |required_skills the candidate mentions| / max(1, |required_skills|), in
\* thousandths
RuleOverlap(required, mentions) ==
  LET matched == {i \in 1..Len(required) : required[i] \in mentions}
      n == IF Len(required) >= 1 THEN Len(required) ELSE 1
  IN (Cardinality(matched) * 1000) \div n

\* the weighted sum 0.7 * semantic + 0.3 * rule_overlap
CombinedScore(semantic, rule) == (7 * semantic + 3 * rule) \div 10

\* the candidates scored; a zero-length vector on either side skips the
\* candidate
ScoredCandidates(job, candidates) ==
  {[document_id |-> candidates[i].id,
    score |-> CombinedScore(
                SemanticSimilarity(job.embedding.v, candidates[i].embedding),
                RuleOverlap(Plain(job.required_skills), candidates[i].skills))] :
     i \in {k \in 1..Len(candidates) :
              Len(job.embedding.v) = 2 /\ Len(candidates[k].embedding) = 2}}

RECURSIVE SortMatchesUnordered(_)
\* the matches in the order of their document ids
SortMatchesUnordered(S) ==
  IF S = {} THEN <<>>
  ELSE LET first == CHOOSE m \in S : \A o \in S : m.document_id <= o.document_id
       IN <<first>> \o SortMatchesUnordered(S \ {first})

RECURSIVE SortMatches(_)
\* descending by combined score, ties by candidate id ascending
SortMatches(S) ==
  IF S = {} THEN <<>>
  ELSE LET first == CHOOSE m \in S : \A o \in S :
                      \/ m.score > o.score
                      \/ m.score = o.score /\ m.document_id <= o.document_id
       IN <<first>> \o SortMatches(S \ {first})

\* JobMatcherService.find_matching_candidates
find_matching_candidates(job, candidates, limit, min_score) ==
  IF job.embedding = Null \/ job.required_skills = Null THEN <<>>
  ELSE Take(SortMatches({m \in ScoredCandidates(job, candidates) :
                           m.score >= min_score}), limit)

\* the handler: 404 for an unknown job, else the matcher's list; min_score
\* is in thousandths
FindMatchingCandidates ==
  /\ matcher.pc = "idle"
  /\ \E job_id \in RequestedIds, limit \in 1..MaxLimit, min_score \in {0, 500, 1000} :
       matcher' =
         IF job_id \notin JobIds
         THEN [matcher EXCEPT !.pc = "done", !.job_id = job_id, !.limit = limit,
                              !.min_score = min_score, !.status = 404]
         ELSE [matcher EXCEPT !.pc = "done", !.job_id = job_id, !.limit = limit,
                              !.min_score = min_score, !.status = 200,
                              !.matches = find_matching_candidates(
                                 matcher.job, matcher.candidates, limit, min_score)]
  /\ MatcherUnchanged

NextMatcher ==
  \/ StoreCandidate
  \/ FindMatchingCandidates

SpecMatcher == InitMatcher /\ [][NextMatcher]_vars

\* ---------------------------------------------------------- job board
NumPosts == 1          \* job posts created
MaxHistory == 3        \* rows of job_status_history

\* ids a request may name: those of the posts created and one more
RequestedPostIds == 1..(NumPosts + 1)

InitBoard ==
  /\ svc = SvcIdle
  /\ req = [r \in 1..NumRequests |-> [pc |-> "off"]]
  /\ job_analyses = <<>>
  /\ job_embeddings = <<>>
  /\ write_log = <<>>
  /\ RestIdle

AnalysisUnchanged ==
  UNCHANGED <<svc, req, job_analyses, job_embeddings, write_log, fn, matcher>>

\* db.query(JobPost).filter(JobPost.id == job_id).first() finds a row
JobExists(job_id) == job_id \in 1..Len(posts)

\* POST /jobs/: create_job_post; JobPostCreate.status is draft or published
CreateJob ==
  /\ Len(posts) < NumPosts
  /\ \E status \in {"draft", "published"} :
       /\ posts' = Append(posts, [status |-> status, views_count |-> 0,
                                  applications_count |-> 0, saves_count |-> 0])
       /\ last' = [op |-> "create_job", args |-> [status |-> status], code |-> 201]
  /\ UNCHANGED <<job_status_history, job_views, saved_jobs, applications, viewer>>
  /\ AnalysisUnchanged

\* ------------------------------------------------------ crud/job_status.py
\* the validation that lets every change through
transition_rejected_never(old_status, new_status, reason) == FALSE

\* change_job_status, "Validation logic": the three raises
transition_rejected(old_status, new_status, reason) ==
  \/ old_status = "published" /\ new_status = "draft"
  \/ old_status = "closed" /\ new_status = "draft"
  \/ new_status = "closed" /\ Falsy(reason)

\* a history row with the two statuses swapped
history_row_swapped(job_id, old_status, new_status, reason) ==
  [job_post_id |-> job_id, old_status |-> new_status, new_status |-> old_status,
   changed_reason |-> reason]

\* change_job_status, "Record history"
history_row(job_id, old_status, new_status, reason) ==
  [job_post_id |-> job_id, old_status |-> old_status, new_status |-> new_status,
   changed_reason |-> reason]

\* change_job_status assigning job.status before the validation and
\* committing
change_job_status_write_first(job_id, new_status, reason) ==
  IF ~JobExists(job_id)
  THEN [code |-> 404, posts |-> posts, history |-> job_status_history]
  ELSE IF posts[job_id].status = new_status
  THEN [code |-> 200, posts |-> posts, history |-> job_status_history]
  ELSE IF transition_rejected(posts[job_id].status, new_status, reason)
  THEN [code |-> 400, posts |-> [posts EXCEPT ![job_id].status = new_status],
        history |-> job_status_history]
  ELSE [code |-> 200,
        posts |-> [posts EXCEPT ![job_id].status = new_status],
        history |-> Append(job_status_history,
                           history_row(job_id, posts[job_id].status,
                                       new_status, reason))]

\* change_job_status and the caller's answer: 404 for None, 400 for the
\* HTTPException, 200 with the job
change_job_status(job_id, new_status, reason) ==
  IF ~JobExists(job_id)
  THEN [code |-> 404, posts |-> posts, history |-> job_status_history]
  ELSE IF posts[job_id].status = new_status
  THEN [code |-> 200, posts |-> posts, history |-> job_status_history]
  ELSE IF transition_rejected(posts[job_id].status, new_status, reason)
  THEN [code |-> 400, posts |-> posts, history |-> job_status_history]
  ELSE [code |-> 200,
        posts |-> [posts EXCEPT ![job_id].status = new_status],
        history |-> Append(job_status_history,
                           history_row(job_id, posts[job_id].status,
                                       new_status, reason))]

\* a status request served: the tables and the answer
StatusRequest(job_id, new_status, reason, outcome) ==
  /\ Len(outcome.history) <= MaxHistory
  /\ posts' = outcome.posts
  /\ job_status_history' = outcome.history
  /\ last' = [op |-> "change_job_status",
              args |-> [job_id |-> job_id, new_status |-> new_status,
                        reason |-> reason],
              code |-> outcome.code]
  /\ UNCHANGED <<job_views, saved_jobs, applications, viewer>>
  /\ AnalysisUnchanged

\* PUT /jobs/{job_id}/status with a JobStatusUpdate body
UpdateJobStatus ==
  \E job_id \in RequestedPostIds, new_status \in {"draft", "published", "closed"},
     reason \in {Null, Str(""), Str("Filled")} :
    StatusRequest(job_id, new_status, reason,
                  change_job_status(job_id, new_status, reason))

\* POST /jobs/{job_id}/publish
PublishJob ==
  \E job_id \in RequestedPostIds :
    StatusRequest(job_id, "published", Str("Published by user"),
                  change_job_status(job_id, "published", Str("Published by user")))

\* POST /jobs/{job_id}/close?reason=...
CloseJob ==
  \E job_id \in RequestedPostIds, reason \in {Str(""), Str("Filled")} :
    StatusRequest(job_id, "closed", reason,
                  change_job_status(job_id, "closed", reason))

\* POST /jobs/{job_id}/reopen
ReopenJob ==
  \E job_id \in RequestedPostIds :
    StatusRequest(job_id, "published", Str("Reopened by user"),
                  change_job_status(job_id, "published", Str("Reopened by user")))

NextStatus ==
  \/ CreateJob
  \/ UpdateJobStatus
  \/ PublishJob
  \/ CloseJob
  \/ ReopenJob

SpecStatus == InitBoard /\ [][NextStatus]_vars

\* --------------------------------------------------- GET /jobs/{job_id}
\* the requests between their read of the job and their commit
Tracking == {v \in 1..NumViewers : viewer[v].pc = "tracking"}

\* track_job_view leaving the counter as read
views_count_kept(views_count) == views_count

\* track_job_view, "Increment counter": job.views_count += 1 on the value
\* the session loaded
views_count_incremented(views_count) == views_count + 1

\* get_job up to the flush: crud.get_job_post and the query of
\* track_job_view load the job in the request's session; a missing job is
\* the HTTPException 404 of track_job_view, before anything is added
GetJobRead ==
  \E v \in 1..NumViewers, job_id \in RequestedPostIds :
    /\ viewer[v].pc = "idle"
    /\ viewer' =
         IF JobExists(job_id)
         THEN [w \in 1..NumViewers |->
                 IF w = v
                 THEN [viewer[v] EXCEPT !.pc = "tracking", !.job_id = job_id,
                                        !.views_count = posts[job_id].views_count,
                                        !.overlapped = Tracking # {}]
                 ELSE IF w \in Tracking
                 THEN [viewer[w] EXCEPT !.overlapped = TRUE]
                 ELSE viewer[w]]
         ELSE [viewer EXCEPT ![v].pc = "done", ![v].job_id = job_id,
                             ![v].code = 404]
    /\ UNCHANGED <<posts, job_status_history, job_views, saved_jobs, applications, last>>
    /\ AnalysisUnchanged

\* track_job_view, db.commit(): the JobView row is inserted and views_count
\* is set to the value computed from the one loaded; get_job returns the job
GetJobCommit ==
  \E v \in Tracking :
    /\ job_views' = Append(job_views, [job_post_id |-> viewer[v].job_id])
    /\ posts' = [posts EXCEPT ![viewer[v].job_id].views_count =
                                views_count_incremented(viewer[v].views_count)]
    /\ viewer' = [viewer EXCEPT ![v].pc = "done", ![v].code = 200]
    /\ UNCHANGED <<job_status_history, saved_jobs, applications, last>>
    /\ AnalysisUnchanged

NextViews ==
  \/ CreateJob
  \/ GetJobRead
  \/ GetJobCommit

SpecViews == InitBoard /\ [][NextViews]_vars

\* ------------------------------------------------- POST /applications/
MaxApplications == 2   \* applications stored, and created for one job

\* the ids db.query(Document) finds; no request here adds a document
StoredDocuments == {1}

ApplicantEmails == {"a@x.com", "b@x.com"}

\* ApplicationCreate: job_post_id, applicant_email, cv_document_id and the
\* optional cover_letter_document_id
ApplicationRequests ==
  [job_post_id : RequestedPostIds, applicant_email : ApplicantEmails,
   cv_document_id : {Num(1), Num(2)},
   cover_letter_document_id : {Null, Num(1), Num(2)}]

\* "3. Check for Duplicate Application": the first row of the pair
ExistingApplication(job_post_id, applicant_email) ==
  \E i \in DOMAIN applications :
    /\ applications[i].job_post_id = job_post_id
    /\ applications[i].applicant_email = applicant_email

\* "4. Create Application" and increment_applications_count
ApplicationStored(data) ==
  [code |-> 201,
   applications |->
     Append(applications,
            [job_post_id |-> data.job_post_id,
             applicant_email |-> data.applicant_email,
             cv_document_id |-> data.cv_document_id,
             cover_letter_document_id |-> data.cover_letter_document_id,
             status |-> "pending", reviewed_at |-> Null]),
   posts |-> [posts EXCEPT ![data.job_post_id].applications_count = @ + 1]]

ApplicationRejected(code) ==
  [code |-> code, applications |-> applications, posts |-> posts]

\* create_application without the check for a duplicate
create_application_unchecked(data) ==
  IF ~JobExists(data.job_post_id) THEN ApplicationRejected(404)
  ELSE IF data.cv_document_id.v \notin StoredDocuments THEN ApplicationRejected(404)
  ELSE IF /\ ~Falsy(data.cover_letter_document_id)
          /\ data.cover_letter_document_id.v \notin StoredDocuments
  THEN ApplicationRejected(404)
  ELSE ApplicationStored(data)

\* crud.create_application: the validations in their order, then the insert
\* and the counter
create_application(data) ==
  IF ~JobExists(data.job_post_id) THEN ApplicationRejected(404)
  ELSE IF data.cv_document_id.v \notin StoredDocuments THEN ApplicationRejected(404)
  ELSE IF /\ ~Falsy(data.cover_letter_document_id)
          /\ data.cover_letter_document_id.v \notin StoredDocuments
  THEN ApplicationRejected(404)
  ELSE IF ExistingApplication(data.job_post_id, data.applicant_email)
  THEN ApplicationRejected(400)
  ELSE ApplicationStored(data)

\* a create request served: the tables and the answer
ApplicationRequest(data) ==
  /\ Len(create_application(data).applications) <= MaxApplications
  /\ \A j \in DOMAIN posts :
       create_application(data).posts[j].applications_count <= MaxApplications
  /\ applications' = create_application(data).applications
  /\ posts' = create_application(data).posts
  /\ last' = [op |-> "create_application", args |-> data,
              code |-> create_application(data).code]
  /\ UNCHANGED <<job_status_history, job_views, saved_jobs, viewer>>
  /\ AnalysisUnchanged

\* POST /applications/
CreateApplication == \E data \in ApplicationRequests : ApplicationRequest(data)

\* POST /applications/ naming the stored CV document and no cover letter
CreateApplicationWithCv ==
  \E data \in {d \in ApplicationRequests :
                 d.cv_document_id = Num(1) /\ d.cover_letter_document_id = Null} :
    ApplicationRequest(data)

NextApplications ==
  \/ CreateJob
  \/ CreateApplication

SpecApplications == InitBoard /\ [][NextApplications]_vars

\* the application an id names: a stored row, by its position, or none
RequestedApplicationIds == 1..(Len(applications) + 1)

\* crud.delete_application: None for an unknown id (the endpoint's 404),
\* else the row is deleted and committed; job_posts is not touched
delete_application(application_id) ==
  IF application_id \notin DOMAIN applications
  THEN [code |-> 404, applications |-> applications]
  ELSE [code |-> 204,
        applications |-> SubSeq(applications, 1, application_id - 1)
                         \o SubSeq(applications, application_id + 1,
                                   Len(applications))]

\* DELETE /applications/{application_id}
DeleteApplication ==
  \E application_id \in RequestedApplicationIds :
    /\ applications' = delete_application(application_id).applications
    /\ last' = [op |-> "delete_application",
                args |-> [application_id |-> application_id],
                code |-> delete_application(application_id).code]
    /\ UNCHANGED <<posts, job_status_history, job_views, saved_jobs, viewer>>
    /\ AnalysisUnchanged

NextApplicationCount ==
  \/ CreateJob
  \/ CreateApplication
  \/ DeleteApplication

SpecApplicationCount == InitBoard /\ [][NextApplicationCount]_vars

\* the values func.now() takes
ReviewTimes == {Num(1), Num(2)}

\* update_application_status stamping reviewed_at on every move away from
\* pending
reviewed_at_restamped(old_status, status, reviewed_at, now) ==
  IF old_status = "pending" /\ status # "pending" THEN now ELSE reviewed_at

\* update_application_status, "Set reviewed_at if moving from pending and
\* not already set"
reviewed_at_updated(old_status, status, reviewed_at, now) ==
  IF old_status = "pending" /\ status # "pending" /\ Falsy(reviewed_at)
  THEN now ELSE reviewed_at

\* crud.update_application_status: None for an unknown id (the endpoint's
\* 404), else the status is assigned and reviewed_at set as above
update_application_status(application_id, status, now) ==
  IF application_id \notin DOMAIN applications
  THEN [code |-> 404, applications |-> applications]
  ELSE [code |-> 200,
        applications |->
          [applications EXCEPT
             ![application_id].status = status,
             ![application_id].reviewed_at =
                reviewed_at_updated(applications[application_id].status, status,
                                    applications[application_id].reviewed_at, now)]]

\* PUT /applications/{application_id}/status with an ApplicationUpdate body
UpdateApplicationStatus ==
  \E application_id \in RequestedApplicationIds,
     status \in {"pending", "reviewed", "rejected"},
     now \in ReviewTimes :
    /\ applications' = update_application_status(application_id, status, now).applications
    /\ last' = [op |-> "update_application_status",
                args |-> [application_id |-> application_id, status |-> status],
                code |-> update_application_status(application_id, status, now).code]
    /\ UNCHANGED <<posts, job_status_history, job_views, saved_jobs, viewer>>
    /\ AnalysisUnchanged

NextReview ==
  \/ CreateJob
  \/ CreateApplicationWithCv
  \/ UpdateApplicationStatus

SpecReview == InitBoard /\ [][NextReview]_vars

\* ------------------------------------------------------ crud/saved_job.py
\* A saved_jobs row: job_post_id, user_email.  A row's id is its position in
\* the table.
UserEmails == {"a@x.com", "b@x.com", "c@x.com"}

RequestedSavedJobIds == 1..(Len(saved_jobs) + 1)

\* check_if_saved
check_if_saved(job_post_id, user_email) ==
  \E i \in DOMAIN saved_jobs :
    /\ saved_jobs[i].job_post_id = job_post_id
    /\ saved_jobs[i].user_email = user_email

\* get_saved_job_by_job_id: the id of the user's row for the job, 0 for None
get_saved_job_by_job_id(job_post_id, user_email) ==
  IF check_if_saved(job_post_id, user_email)
  THEN CHOOSE i \in DOMAIN saved_jobs :
         /\ saved_jobs[i].job_post_id = job_post_id
         /\ saved_jobs[i].user_email = user_email
         /\ \A k \in 1..(i - 1) :
              ~(/\ saved_jobs[k].job_post_id = job_post_id
                /\ saved_jobs[k].user_email = user_email)
  ELSE 0

\* the table without the row saved_job_id
saved_job_deleted(saved_job_id) ==
  SubSeq(saved_jobs, 1, saved_job_id - 1)
    \o SubSeq(saved_jobs, saved_job_id + 1, Len(saved_jobs))

\* increment_saves_count
increment_saves_count(job_post_id) ==
  IF JobExists(job_post_id)
  THEN [posts EXCEPT ![job_post_id].saves_count = @ + 1]
  ELSE posts

decrement_saves_count_skipped(job_post_id) == posts

\* decrement_saves_count
decrement_saves_count(job_post_id) ==
  IF JobExists(job_post_id) /\ posts[job_post_id].saves_count > 0
  THEN [posts EXCEPT ![job_post_id].saves_count = @ - 1]
  ELSE posts

\* save_job; code is the status of the response
save_job(save_data) ==
  IF ~JobExists(save_data.job_post_id)
  THEN [code |-> 404, saved_jobs |-> saved_jobs, posts |-> posts]
  ELSE IF check_if_saved(save_data.job_post_id, save_data.user_email)
  THEN [code |-> 400, saved_jobs |-> saved_jobs, posts |-> posts]
  ELSE [code |-> 201,
        saved_jobs |-> Append(saved_jobs,
                              [job_post_id |-> save_data.job_post_id,
                               user_email |-> save_data.user_email]),
        posts |-> increment_saves_count(save_data.job_post_id)]

\* unsave_job
unsave_job(saved_job_id, user_email) ==
  IF saved_job_id \notin DOMAIN saved_jobs
  THEN [ok |-> FALSE, saved_jobs |-> saved_jobs, posts |-> posts]
  ELSE IF saved_jobs[saved_job_id].user_email # user_email
  THEN [ok |-> FALSE, saved_jobs |-> saved_jobs, posts |-> posts]
  ELSE [ok |-> TRUE, saved_jobs |-> saved_job_deleted(saved_job_id),
        posts |-> decrement_saves_count(saved_jobs[saved_job_id].job_post_id)]

\* unsave_job_by_job_id
unsave_job_by_job_id(job_post_id, user_email) ==
  IF get_saved_job_by_job_id(job_post_id, user_email) = 0
  THEN [ok |-> FALSE, saved_jobs |-> saved_jobs, posts |-> posts]
  ELSE [ok |-> TRUE,
        saved_jobs |-> saved_job_deleted(get_saved_job_by_job_id(job_post_id, user_email)),
        posts |-> decrement_saves_count(job_post_id)]

\* POST /saved-jobs/
SaveJob ==
  \E job_post_id \in RequestedPostIds, user_email \in UserEmails :
    LET save_data == [job_post_id |-> job_post_id, user_email |-> user_email]
    IN /\ saved_jobs' = save_job(save_data).saved_jobs
       /\ posts' = save_job(save_data).posts
       /\ last' = [op |-> "save_job", args |-> save_data,
                   code |-> save_job(save_data).code]
       /\ UNCHANGED <<job_status_history, job_views, applications, viewer>>
       /\ AnalysisUnchanged

\* DELETE /saved-jobs/{saved_job_id}: 404 for an unknown id, 403 for a
\* user who does not own the row, otherwise unsave_job
UnsaveJob ==
  \E saved_job_id \in RequestedSavedJobIds, user_email \in UserEmails :
    /\ IF saved_job_id \notin DOMAIN saved_jobs
       THEN UNCHANGED <<saved_jobs, posts>>
              /\ last' = [op |-> "unsave_job",
                          args |-> [saved_job_id |-> saved_job_id,
                                    user_email |-> user_email],
                          code |-> 404]
       ELSE IF saved_jobs[saved_job_id].user_email # user_email
       THEN UNCHANGED <<saved_jobs, posts>>
              /\ last' = [op |-> "unsave_job",
                          args |-> [saved_job_id |-> saved_job_id,
                                    user_email |-> user_email],
                          code |-> 403]
       ELSE /\ saved_jobs' = unsave_job(saved_job_id, user_email).saved_jobs
            /\ posts' = unsave_job(saved_job_id, user_email).posts
            /\ last' = [op |-> "unsave_job",
                        args |-> [saved_job_id |-> saved_job_id,
                                  user_email |-> user_email],
                        code |-> IF unsave_job(saved_job_id, user_email).ok
                                 THEN 204 ELSE 404]
    /\ UNCHANGED <<job_status_history, job_views, applications, viewer>>
    /\ AnalysisUnchanged

\* DELETE /saved-jobs/unsave/{job_post_id}
UnsaveJobByJobId ==
  \E job_post_id \in RequestedPostIds, user_email \in UserEmails :
    /\ saved_jobs' = unsave_job_by_job_id(job_post_id, user_email).saved_jobs
    /\ posts' = unsave_job_by_job_id(job_post_id, user_email).posts
    /\ last' = [op |-> "unsave_job_by_job_id",
                args |-> [job_post_id |-> job_post_id, user_email |-> user_email],
                code |-> IF unsave_job_by_job_id(job_post_id, user_email).ok
                         THEN 204 ELSE 404]
    /\ UNCHANGED <<job_status_history, job_views, applications, viewer>>
    /\ AnalysisUnchanged

NextSaves ==
  \/ CreateJob
  \/ SaveJob
  \/ UnsaveJob
  \/ UnsaveJobByJobId

SpecSaves == InitBoard /\ [][NextSaves]_vars

\* ------------------------------------------------------------------ claims
Finished(r) == req[r].pc = "done"

IsError(resp) == resp.status >= 400

\* C1: when the embedding step fails after the analysis was stored, the
\* request still completes successfully and returns the stored analysis.
C1_EmbeddingFailureStillSucceeds ==
  \A r \in 1..NumRequests :
    (Finished(r) /\ req[r].db_analysis # Null
       /\ req[r].embedding_vector = "unbound")
    => /\ req[r].response.status = 200
       /\ req[r].response.body = req[r].db_analysis

\* C2: on a job that exists and is not yet analyzed, no extraction outcome
\* makes the endpoint answer 4xx/5xx: an error answer has another cause (the
\* embedding step or a concurrent insert).
C2_NoErrorFromExtraction ==
  \A r \in 1..NumRequests :
    (Finished(r) /\ req[r].path = "fresh" /\ IsError(req[r].response))
    => req[r].response.error \in {"IntegrityError", "UnboundLocalError"}

\* C3: whatever the extraction returns or raises, the analysis returned by
\* JobAnalyzerService.analyze_job has all eight array fields present and
\* non-null and experience_level, employment_type in their enumerations.
C3_ReturnedAnalysisIsComplete ==
  svc.pc = "returned" =>
    /\ svc.analysis.k = "obj"
    /\ \A f \in ArrayFieldSet : svc.analysis.v[f].k \notin {"absent", "null"}
    /\ svc.analysis.v.experience_level.k = "str"
    /\ svc.analysis.v.experience_level.v \in valid_levels
    /\ svc.analysis.v.employment_type.k = "str"
    /\ svc.analysis.v.employment_type.v \in valid_types

\* an answer with a null array and an unknown level and type went through
\* the validator, the enhancer and the text builder
C3_Witness ==
  /\ svc.pc = "returned"
  /\ svc.path = "llm"
  /\ svc.raw.k = "obj"
  /\ svc.raw.v.benefits = Null
  /\ svc.raw.v.soft_skills.k = "absent"
  /\ svc.raw.v.experience_level.k = "absent"
  /\ svc.analysis.v.benefits = List(<<>>)

\* C4: an analyze request for a job that already has a stored analysis is
\* answered with that analysis, calls neither the extraction nor the
\* embedding capability and leaves both tables unchanged.
C4_CachedAnalysisReturned ==
  [][\A r \in 1..NumRequests :
       (/\ req[r].pc = "idle"
        /\ req'[r].pc # "idle"
        /\ RowsOf(job_analyses, req'[r].job_id) # {})
       => /\ req'[r].pc = "done"
          /\ req'[r].response.status = 200
          /\ \E i \in RowsOf(job_analyses, req'[r].job_id) :
               req'[r].response.body = job_analyses[i].analysis
          /\ req'[r].result.calls = 0
          /\ req'[r].embed_calls = 0
          /\ job_analyses' = job_analyses
          /\ job_embeddings' = job_embeddings]_vars

\* a second request for an analyzed job has been answered from the table
C4_Witness ==
  \E r \in 1..NumRequests :
    /\ Finished(r)
    /\ req[r].response.status = 200
    /\ req[r].result.calls = 0
    /\ RowsOf(job_analyses, req[r].job_id) # {}
    /\ RowsOf(job_embeddings, req[r].job_id) # {}
    /\ write_log # <<>> /\ \A i \in 1..Len(write_log) : write_log[i] # r

RetryAlsoFailed ==
  /\ svc.branch = "retry"
  /\ generate_and_parse(svc.out2).exc = "JSONDecodeError"

\* C5: when the first response fails to parse, the reduced prompt is tried
\* exactly once, and when that response fails to parse too the analysis
\* returned is the Fallback Analyzer's for the job.
C5_RetryThenFallbackAnalyzer ==
  (svc.pc = "returned" /\ RetryAlsoFailed)
  => /\ svc.calls = 2
     /\ svc.analysis = fallback_analysis(svc.job_post)

\* C6: when the extraction call raises, there is no retry and the analysis
\* returned has employment_type full-time and the experience_level that
\* classifies the years found in the description, mid when none is found.
C6_TimeoutUsesYearsFound ==
  (svc.pc = "returned" /\ svc.out1 = LLMRaises)
  => LET ym == years_match(LowerDesc(svc.job_post.description))
     IN /\ svc.calls = 1
        /\ svc.analysis.v.employment_type = Str("full-time")
        /\ svc.analysis.v.experience_level =
             IF ym.found THEN Str(level_of_twice_avg(2 * ym.years))
             ELSE Str("mid")

\* C7: whatever the interleaving and the failures, a job has at most one
\* row in job_analyses and at most one row in job_embeddings.
C7_AtMostOneAnalysisAndEmbedding ==
  \A j \in RequestedIds :
    /\ Cardinality(RowsOf(job_analyses, j)) <= 1
    /\ Cardinality(RowsOf(job_embeddings, j)) <= 1

\* two requests for the same job both went past the cached-analysis check
\* and both called create_job_analysis; the job has its analysis and its
\* embedding
C7_Witness ==
  \E r1, r2 \in 1..NumRequests :
    /\ r1 # r2
    /\ req[r1].job_id = req[r2].job_id
    /\ Finished(r1) /\ Finished(r2)
    /\ \E i, k \in 1..Len(write_log) : write_log[i] = r1 /\ write_log[k] = r2
    /\ Cardinality(RowsOf(job_analyses, req[r1].job_id)) = 1
    /\ Cardinality(RowsOf(job_embeddings, req[r1].job_id)) = 1

\* the request whose create_job_analysis call for its job came last, after
\* another request's
LastWriter(r) ==
  /\ req[r].pc # "store"
  /\ \E k \in 1..Len(write_log) :
       /\ write_log[k] = r
       /\ \A m \in 1..Len(write_log) :
            req[write_log[m]].job_id = req[r].job_id => m <= k
       /\ \E m \in 1..Len(write_log) :
            m < k /\ req[write_log[m]].job_id = req[r].job_id

\* C8: of two concurrent analyze requests that both passed the existence
\* check, the one that writes last is not answered with an error and its
\* analysis is the one stored.
C8_LastWriterWins ==
  \A r \in 1..NumRequests :
    LastWriter(r)
    => /\ req[r].response.error # "IntegrityError"
       /\ \A i \in RowsOf(job_analyses, req[r].job_id) :
            job_analyses[i] = req[r].analysis_create

\* a value the extraction step supplied: not absent, null or empty
Present(x) == x.k \notin {"absent", "null"} /\ x # Str("") /\ x # List(<<>>)

\* C9: the enhancer leaves every field that holds a present value (a
\* min_years_experience of 0 included) as it found it.
C9_EnhancerKeepsPresentValues ==
  [][svc.pc = "enhance" =>
       \A f \in AllFields :
         Present(svc.analysis.v[f]) => svc'.analysis.v[f] = svc.analysis.v[f]]_vars

\* no two entries of a list are equal when compared case-insensitively
NoCaseDuplicates(x) ==
  x.k = "list" =>
    \A i, j \in 1..Len(x.v) :
      (i # j /\ x.v[i].k = "str" /\ x.v[j].k = "str")
      => Lower(x.v[i].v) # Lower(x.v[j].v)

YearsConsistent(a) ==
  LET mn == a.v.min_years_experience
      mx == a.v.max_years_experience
  IN /\ mn.k \in {"absent", "null"} \/ (mn.k = "num" /\ mn.v >= 0)
     /\ mx.k \in {"absent", "null"} \/ (mx.k = "num" /\ mx.v >= 0)
     /\ (mn.k = "num" /\ mx.k = "num") => mn.v <= mx.v

\* C11: in every analysis stored in job_analyses and in every analysis an
\* analyze request returns, min_years_experience and max_years_experience
\* are non-negative integers when present and min <= max when both are.
C11_YearsNonNegativeAndOrdered ==
  /\ \A i \in 1..Len(job_analyses) : YearsConsistent(job_analyses[i].analysis)
  /\ \A r \in 1..NumRequests :
       (Finished(r) /\ req[r].response.status = 200)
       => YearsConsistent(req[r].response.body)

\* what _deduplicate_skills compares: the skill trimmed and lower-cased
SkillKey(s) == Strip(Lower(s))

\* the position of the first entry of q in the class of s
FirstOfClass(q, s) ==
  CHOOSE i \in 1..Len(q) :
    /\ SkillKey(q[i]) = SkillKey(s)
    /\ \A k \in 1..(i - 1) : SkillKey(q[k]) # SkillKey(s)

\* C12: for every sequence of strings, _deduplicate_skills returns one entry
\* per class of strings equal after trimming and lower-casing, namely the
\* class's first occurrence (trimmed, its casing kept), the classes in
\* first-seen order; applying it to its own result changes nothing.
C12_DedupKeepsFirstOccurrences ==
  (fn.op = "deduplicate_skills" /\ fn.pc \in {"returned", "again"}) =>
    /\ fn.output.exc = "none"
    /\ LET given == Plain(fn.input)
           out == Plain(fn.output.val)
       IN /\ \A i \in 1..Len(given) :
               Cardinality({j \in 1..Len(out) :
                              SkillKey(out[j]) = SkillKey(given[i])}) = 1
          /\ \A j \in 1..Len(out) :
               /\ \E i \in 1..Len(given) : SkillKey(given[i]) = SkillKey(out[j])
               /\ out[j] = Strip(given[FirstOfClass(given, out[j])])
          /\ \A j1, j2 \in 1..Len(out) :
               j1 < j2 => FirstOfClass(given, out[j1]) < FirstOfClass(given, out[j2])
    /\ fn.pc = "again" => fn.again = fn.output

\* the list of the specification's example was deduplicated, twice
C12_Witness ==
  /\ fn.op = "deduplicate_skills"
  /\ fn.pc = "again"
  /\ fn.input = L(<<"Python", "python", " Python ">>)
  /\ fn.output = Ok(L(<<"Python">>))
  /\ fn.again = Ok(L(<<"Python">>))

\* the level the thresholds give for an average a, a2 being twice a
LevelByThresholds(a2) ==
  CASE a2 <= 2 -> "entry"
    [] a2 > 2 /\ a2 <= 6 -> "junior"
    [] a2 > 6 /\ a2 <= 10 -> "mid"
    [] a2 > 10 /\ a2 <= 16 -> "senior"
    [] a2 > 16 /\ a2 <= 24 -> "lead"
    [] a2 > 24 -> "principal"

\* the averages the specification names, as (min, max) pairs, and their level
ThresholdExamples ==
  {<<1, 1, "entry">>, <<1, 2, "junior">>, <<5, 5, "mid">>, <<8, 8, "senior">>,
   <<12, 12, "lead">>, <<13, 13, "principal">>}

\* C13: _detect_experience_level maps the average a of the years to exactly
\* one level by inclusive upper thresholds: a <= 1 entry, <= 3 junior,
\* <= 5 mid, <= 8 senior, <= 12 lead, above 12 principal.
C13_ClassifierThresholds ==
  (/\ fn.op = "detect_experience_level"
   /\ fn.pc = "returned"
   /\ fn.output.exc = "none") =>
    /\ fn.output.val \in valid_levels
    /\ fn.output.val = LevelByThresholds(twice_avg_years(fn.input))
    /\ \A e \in ThresholdExamples :
         (/\ fn.input.v.min_years_experience = Num(e[1])
          /\ fn.input.v.max_years_experience = Num(e[2]))
         => fn.output.val = e[3]

\* an average of 1.5 years was classified
C13_Witness ==
  /\ fn.op = "detect_experience_level"
  /\ fn.pc = "returned"
  /\ fn.input.v.min_years_experience = Num(1)
  /\ fn.input.v.max_years_experience = Num(2)
  /\ fn.output = Ok("junior")

\* the first n entries of a list value
FirstN(x, n) == IF x.k = "list" THEN List(Take(x.v, n)) ELSE x

\* what the embedding text is said to depend on
EmbeddingRelevant(arg) ==
  << arg.job_post.title, arg.job_post.company,
     arg.analysis.v.experience_level,
     FirstN(arg.analysis.v.required_skills, 10),
     FirstN(arg.analysis.v.key_technologies, 8),
     FirstN(arg.analysis.v.responsibilities, 3) >>

EmbeddingLabels ==
  <<"Job Title", "Company", "Experience Level", "Required Skills",
    "Technologies", "Key Responsibilities">>

LabelPosition(label) ==
  CHOOSE i \in 1..Len(EmbeddingLabels) : EmbeddingLabels[i] = label

\* the lines carry the fixed labels, in the fixed order
LabelsInOrder(text) ==
  /\ Len(text) >= 3
  /\ \A i \in 1..3 : text[i].label = EmbeddingLabels[i]
  /\ \A i, j \in 1..Len(text) :
       i < j => LabelPosition(text[i].label) < LabelPosition(text[j].label)

\* C14: two (job, analysis) arguments that agree on title, company,
\* experience_level, the first 10 required skills, the first 8 key
\* technologies and the first 3 responsibilities yield the same embedding
\* text, whatever else differs; its lines are labelled, in the fixed order.
C14_EmbeddingTextDependsOnlyOnNamedFields ==
  (fn.op = "prepare_embedding_text" /\ fn.pc = "returned") =>
    /\ EmbeddingRelevant(fn.input[1]) = EmbeddingRelevant(fn.input[2])
       => fn.output[1] = fn.output[2]
    /\ \A i \in 1..2 :
         fn.output[i].exc = "none" => LabelsInOrder(fn.output[i].val)

\* two jobs with different descriptions whose analyses differ in the 11th
\* required skill got the same text, with ten skills on its skills line
C14_Witness ==
  /\ fn.op = "prepare_embedding_text"
  /\ fn.pc = "returned"
  /\ fn.input[1].job_post.description # fn.input[2].job_post.description
  /\ fn.input[1].job_post.title = fn.input[2].job_post.title
  /\ fn.input[1].analysis.v.required_skills = L(Skills11)
  /\ fn.input[2].analysis.v.required_skills = L([Skills11 EXCEPT ![11] = "Spark"])
  /\ fn.output[1].exc = "none"
  /\ fn.output[1] = fn.output[2]
  /\ Len(fn.output[1].val[4].parts) = 10

\* C15: every candidate a matching request returns has a combined score in
\* [min_score, 1.0], the list is sorted non-increasing by combined score and
\* has at most limit items.
C15_MatchesBoundedSortedLimited ==
  (matcher.pc = "done" /\ matcher.status = 200) =>
    /\ \A i \in 1..Len(matcher.matches) :
         /\ matcher.matches[i].score >= matcher.min_score
         /\ matcher.matches[i].score <= 1000
    /\ \A i, j \in 1..Len(matcher.matches) :
         i < j => matcher.matches[i].score >= matcher.matches[j].score
    /\ Len(matcher.matches) <= matcher.limit

\* three candidates passed the threshold with different scores, the
\* best-scored of them stored last, and the request asked for two
C15_Witness ==
  /\ matcher.pc = "done"
  /\ matcher.status = 200
  /\ matcher.limit = 2
  /\ matcher.min_score = 500
  /\ Len(matcher.matches) = 2
  /\ matcher.matches[1].document_id = 3
  /\ matcher.matches[1].score > matcher.matches[2].score
  /\ Cardinality({m \in ScoredCandidates(matcher.job, matcher.candidates) :
                    m.score >= 500}) = 3

\* the changes of status the workflow allows
AllowedChanges ==
  {<<"draft", "published">>, <<"draft", "closed">>,
   <<"published", "closed">>, <<"closed", "published">>}

NonEmptyReason(reason) == reason.k = "str" /\ reason.v # ""

\* the step serves a status request for an existing job
StatusStep == last'.op = "change_job_status" /\ JobExists(last'.args.job_id)

\* C16: change_job_status alters the job's status exactly when the requested
\* change is draft->published, draft->closed, published->closed or
\* closed->published, with a non-empty reason whenever the new status is
\* closed; the status then is the requested one, and published->draft and
\* closed->draft are never applied.
C16_StatusAlteredExactlyOnValidChange ==
  [][StatusStep =>
       LET job_id == last'.args.job_id
           old_status == posts[job_id].status
           new_status == last'.args.new_status
       IN  /\ posts'[job_id].status # old_status
                <=> /\ <<old_status, new_status>> \in AllowedChanges
                    /\ new_status = "closed" => NonEmptyReason(last'.args.reason)
           /\ posts'[job_id].status \in {old_status, new_status}
           /\ old_status \in {"published", "closed"}
                => posts'[job_id].status # "draft"
           /\ \A other \in DOMAIN posts :
                other # job_id => posts'[other] = posts[other]]_vars

\* a reopened job was asked back to draft and kept its status
C16_Witness ==
  /\ \E i \in DOMAIN job_status_history :
       /\ job_status_history[i].old_status = "closed"
       /\ job_status_history[i].new_status = "published"
  /\ last.op = "change_job_status"
  /\ last.args.new_status = "draft"
  /\ JobExists(last.args.job_id)
  /\ posts[last.args.job_id].status = "published"

\* the rejected changes: published->draft, closed->draft, and a change to
\* closed without a reason
RejectedChange(old_status, new_status, reason) ==
  \/ old_status = "published" /\ new_status = "draft"
  \/ old_status = "closed" /\ new_status = "draft"
  \/ old_status # "closed" /\ new_status = "closed" /\ ~NonEmptyReason(reason)

\* C17: every rejected status change (published->draft, closed->draft, or a
\* change to closed without a reason) is answered with 400 and leaves the
\* job's status and the status history unchanged.
C17_RejectedChangeLeavesStatusAndHistory ==
  [][(/\ StatusStep
      /\ RejectedChange(posts[last'.args.job_id].status, last'.args.new_status,
                        last'.args.reason))
       => /\ last'.code = 400
          /\ posts' = posts
          /\ job_status_history' = job_status_history]_vars

\* a published job with a history was asked to close without a reason
C17_Witness ==
  /\ last.op = "change_job_status"
  /\ last.code = 400
  /\ last.args.new_status = "closed"
  /\ last.args.reason \in {Null, Str("")}
  /\ JobExists(last.args.job_id)
  /\ posts[last.args.job_id].status = "published"
  /\ \E i \in DOMAIN job_status_history :
       job_status_history[i].job_post_id = last.args.job_id

\* the history rows of a job, oldest first
HistoryOf(job_id) ==
  SelectSeq(job_status_history, LAMBDA row : row.job_post_id = job_id)

\* each record's new_status is the next record's old_status, and the latest
\* record's new_status is the job's status
HistoryChained ==
  \A job_id \in DOMAIN posts :
    LET rows == HistoryOf(job_id)
    IN  /\ \A i \in 1..(Len(rows) - 1) : rows[i].new_status = rows[i + 1].old_status
        /\ rows # <<>> => rows[Len(rows)].new_status = posts[job_id].status

\* C18: a status change that alters the job's status appends exactly one
\* history record, with old_status the status before and new_status the
\* status after; a request for the status the job already has succeeds and
\* appends no record; a step that leaves the status alone appends none. Hence
\* the history of a job is chained and ends in the job's status.
C18_OneHistoryRecordPerChange ==
  /\ []HistoryChained
  /\ [][StatusStep =>
          LET job_id == last'.args.job_id
              old_status == posts[job_id].status
          IN  /\ posts'[job_id].status # old_status
                   => job_status_history' =
                        Append(job_status_history,
                               [job_post_id |-> job_id,
                                old_status |-> old_status,
                                new_status |-> posts'[job_id].status,
                                changed_reason |-> last'.args.reason])
              /\ posts'[job_id].status = old_status
                   => job_status_history' = job_status_history
              /\ last'.args.new_status = old_status
                   => last'.code = 200 /\ posts' = posts]_vars

\* a job published and then closed was asked to close again
C18_Witness ==
  /\ last.op = "change_job_status"
  /\ last.code = 200
  /\ last.args.new_status = "closed"
  /\ JobExists(last.args.job_id)
  /\ posts[last.args.job_id].status = "closed"
  /\ Len(HistoryOf(last.args.job_id)) = 2
  /\ last.args.reason = Null

\* the JobView rows stored for a job
ViewsOf(job_id) == SelectSeq(job_views, LAMBDA row : row.job_post_id = job_id)

\* no request so far ran while another was between its read and its commit
NonOverlappingViews == \A v \in 1..NumViewers : ~viewer[v].overlapped

\* C19: a GET of an existing job that ends with 200 stores exactly one
\* JobView, for that job, and, when it overlapped no other view, raises the
\* job's views_count by exactly one; so after non-overlapping views the
\* views_count of every job is the number of its JobView rows. A GET of a
\* missing job is answered 404 and stores nothing.
C19_ViewRecordedAndCounted ==
  /\ [](NonOverlappingViews
          => \A job_id \in DOMAIN posts :
               posts[job_id].views_count = Len(ViewsOf(job_id)))
  /\ [][\A v \in 1..NumViewers :
          /\ (viewer[v].pc # "done" /\ viewer'[v].pc = "done" /\ viewer'[v].code = 200)
               => /\ JobExists(viewer'[v].job_id)
                  /\ job_views' = Append(job_views, [job_post_id |-> viewer'[v].job_id])
                  /\ ~viewer'[v].overlapped
                       => posts'[viewer'[v].job_id].views_count
                            = posts[viewer'[v].job_id].views_count + 1
          /\ (viewer[v].pc # "done" /\ viewer'[v].pc = "done" /\ viewer'[v].code # 200)
               => /\ ~JobExists(viewer'[v].job_id)
                  /\ viewer'[v].code = 404
                  /\ job_views' = job_views
                  /\ posts' = posts]_vars

\* three views of a job one after another, counted three times
C19_Witness ==
  /\ NonOverlappingViews
  /\ \A v \in 1..NumViewers :
       viewer[v].pc = "done" /\ viewer[v].code = 200 /\ viewer[v].job_id = 1
  /\ posts[1].views_count = NumViewers
  /\ Len(ViewsOf(1)) = NumViewers

\* the step serves a create_application request
ApplicationStep == last'.op = "create_application"

\* at most one application per (job, applicant email)
OneApplicationPerPair ==
  \A i, k \in DOMAIN applications :
    (/\ applications[i].job_post_id = applications[k].job_post_id
     /\ applications[i].applicant_email = applications[k].applicant_email)
      => i = k

\* a rejected request stores nothing and leaves the counters alone
RejectedStoresNothing ==
  (ApplicationStep /\ last'.code # 201)
    => /\ last'.code \in {400, 404}
       /\ applications' = applications
       /\ posts' = posts

DocumentsFound(data) ==
  /\ data.cv_document_id.v \in StoredDocuments
  /\ \/ data.cover_letter_document_id = Null
     \/ data.cover_letter_document_id.v \in StoredDocuments

ResponseParses(out) ==
  /\ out.k = "text"
  /\ out.text.body # Garbage
  /\ out.text.pre \in {"", Fence, FenceJson}
  /\ out.text.post \in {"", Fence}

\* C21: in one analyze call generate_structured is invoked at most twice,
\* the second time only after the response to the full prompt failed to
\* parse, never after the call raised, and embed_document is invoked at most
\* once; a request answered from the cache invokes neither.
C21_CapabilitiesInvokedAtMostOnce ==
  \A r \in 1..NumRequests :
    /\ req[r].result.calls \in 0..2
    /\ req[r].embed_calls \in 0..1
    /\ req[r].result.calls = 2
         => req[r].out1.k = "text" /\ ~ResponseParses(req[r].out1)
    /\ req[r].out1.k = "raise" => req[r].result.calls = 1
    /\ (req[r].out1.k = "text" /\ ResponseParses(req[r].out1))
         => req[r].result.calls = 1
    /\ req[r].path \in {"cached", "not_found"}
         => req[r].result.calls = 0 /\ req[r].embed_calls = 0

\* one request retried with the reduced prompt and embedded once, another
\* whose extraction call raised
C21_Witness ==
  \E r, q \in 1..NumRequests :
    /\ req[r].pc = "done"
    /\ req[r].result.calls = 2
    /\ req[r].embed_calls = 1
    /\ req[q].out1.k = "raise"
    /\ req[q].result.calls = 1

\* C22: for every job description the remote_policy, min_years_experience
\* and key_technologies of _fallback_analysis equal those _enhance_with_rules
\* gives on the same description for an analysis with these fields empty.
C22_FallbackAgreesWithEnhancer ==
  (fn.op = "fallback_analysis" /\ fn.pc = "returned") =>
    /\ fn.output.v.remote_policy = fn.again.v.remote_policy
    /\ fn.output.v.min_years_experience = fn.again.v.min_years_experience
    /\ fn.output.v.key_technologies = fn.again.v.key_technologies

\* the years the validator is said to classify, doubled: the sum of
\* min_years and max_years when both are present, twice min_years when
\* max_years is absent, 0 when neither is present
ClaimedTwiceAvg(a) ==
  LET mn == a.min_years_experience
      mx == a.max_years_experience
  IN IF mn.k = "num" /\ mx.k = "num" THEN mn.v + mx.v
     ELSE IF mn.k = "num" THEN 2 * mn.v
     ELSE 0

\* C23: when the extracted experience_level is missing or not one of the six
\* levels, _validate_and_clean sets it to the classifier's level for the
\* average of min_years and max_years when both are present, for min_years
\* when max_years is absent and for 0 when neither is present; a valid
\* extracted experience_level is left unchanged.
C23_ValidatorDerivesLevel ==
  (svc.cleaned # Null /\ svc.branch = "parsed") =>
    LET a == svc.raw.v
        mn == a.min_years_experience
        mx == a.max_years_experience
    IN IF a.experience_level.k = "str" /\ a.experience_level.v \in valid_levels
       THEN svc.cleaned.v.experience_level = a.experience_level
       ELSE (~(mn.k \in {"absent", "null"} /\ mx.k = "num"))
              => svc.cleaned.v.experience_level
                   = Str(LevelByThresholds(ClaimedTwiceAvg(a)))

\* the request stored the analysis of its job and its embedding step failed
StoredWithoutEmbedding(r) ==
  /\ req[r].db_analysis # Null
  /\ req[r].pc \in {"respond", "done"}
  /\ req[r].embedding_vector = "unbound"

\* C24: once the request that stored a job's analysis has failed in its
\* embedding step, the job has no embedding in any later state, and every
\* request that looks the job up after the analysis was stored is answered
\* with the cached analysis without reaching the embedding step.
C24_FailedEmbeddingIsNeverRepaired ==
  /\ [](\A r \in 1..NumRequests :
          StoredWithoutEmbedding(r) => RowsOf(job_embeddings, req[r].job_id) = {})
  /\ [][\A r \in 1..NumRequests :
          (/\ req[r].pc = "idle"
           /\ req'[r].pc # "idle"
           /\ RowsOf(job_analyses, req'[r].job_id) # {})
            => /\ req'[r].pc = "done"
               /\ req'[r].path = "cached"
               /\ req'[r].response.status = 200]_vars

\* the embedding step of the storing request failed and a later request got
\* the cached analysis; the job has no embedding
C24_Witness ==
  \E r, q \in 1..NumRequests :
    /\ StoredWithoutEmbedding(r)
    /\ req[r].pc = "done"
    /\ req[q].pc = "done"
    /\ req[q].path = "cached"
    /\ req[q].job_id = req[r].job_id
    /\ RowsOf(job_embeddings, req[r].job_id) = {}

\* the extraction step supplied no valid experience_level: the call raised,
\* or the parsed answer is an object whose experience_level is missing or
\* not one of the six levels
NoValidLevelExtracted ==
  \/ svc.out1.k = "raise"
  \/ /\ svc.branch = "parsed"
     /\ svc.raw.k = "obj"
     /\ ~(/\ svc.raw.v.experience_level.k = "str"
          /\ svc.raw.v.experience_level.v \in valid_levels)

\* C25: whenever the extraction step supplied no valid experience_level, the
\* experience_level of the analysis analyze_job returns is the result of
\* _detect_experience_level on the min_years_experience and
\* max_years_experience of that returned analysis.
C25_ReturnedLevelMatchesReturnedYears ==
  (svc.pc = "returned" /\ NoValidLevelExtracted) =>
    detect_experience_level(svc.analysis) = Ok(svc.analysis.v.experience_level.v)

\* C26: in every analysis analyze_job returns, on every path, a non-empty
\* key_technologies comes with a non-empty required_skills.
C26_TechnologiesImplyRequiredSkills ==
  svc.pc = "returned" =>
    (svc.analysis.v.key_technologies.v # <<>>
       => svc.analysis.v.required_skills.v # <<>>)

\* C28: however track_job_view calls for one job interleave, no increment is
\* lost: once no view is between its read and its commit, the views_count of
\* every job is the number of its JobView rows.
C28_NoIncrementLost ==
  Tracking = {}
    => \A job_id \in DOMAIN posts :
         posts[job_id].views_count = Len(ViewsOf(job_id))

\* the applications stored for a job
ApplicationsOf(job_id) ==
  SelectSeq(applications, LAMBDA row : row.job_post_id = job_id)

\* C27: after any sequence of create_application and delete_application
\* calls, the applications_count of every job is the number of applications
\* stored for it.
C27_ApplicationsCountIsStoredRows ==
  \A job_id \in DOMAIN posts :
    posts[job_id].applications_count = Len(ApplicationsOf(job_id))

\* the SavedJob rows stored for a job
SavedOf(job_id) == SelectSeq(saved_jobs, LAMBDA row : row.job_post_id = job_id)

\* C29: after any sequence of save_job, unsave_job and unsave_job_by_job_id
\* calls, rejected ones included, the saves_count of every job is the number
\* of SavedJob rows stored for it, and is never negative.
C29_SavesCountIsStoredRows ==
  \A job_id \in DOMAIN posts :
    /\ posts[job_id].saves_count = Len(SavedOf(job_id))
    /\ posts[job_id].saves_count >= 0

\* two users have job 1 saved, counted twice, and the request just served
\* was an attempt to delete a row by a user who does not own it, refused
C29_Witness ==
  /\ last.op = "unsave_job"
  /\ last.code = 403
  /\ Len(saved_jobs) = 2
  /\ saved_jobs[1].user_email = "b@x.com"
  /\ saved_jobs[2].user_email = "a@x.com"
  /\ posts[1].saves_count = 2

\* C30: an application whose status is not pending has reviewed_at set, and
\* no update_application_status call changes or clears a reviewed_at that
\* is set, whatever the status it moves to.
C30_ReviewedAtSetOnceAndKept ==
  /\ [](\A i \in DOMAIN applications :
          applications[i].status # "pending" => applications[i].reviewed_at # Null)
  /\ [][last'.op = "update_application_status"
          => /\ Len(applications') = Len(applications)
             /\ \A i \in DOMAIN applications :
                  applications[i].reviewed_at # Null
                    => applications'[i].reviewed_at = applications[i].reviewed_at]_vars

\* an application reviewed at time 1 went back to pending and was reviewed
\* again at a later time; reviewed_at is still 1
C30_Witness ==
  /\ last.op = "update_application_status"
  /\ last.code = 200
  /\ last.args.status = "rejected"
  /\ applications[last.args.application_id].reviewed_at = Num(1)
  /\ Len(applications) = 2
  /\ applications[3 - last.args.application_id].status = "pending"
  /\ applications[3 - last.args.application_id].reviewed_at = Num(2)

====
